---- MODULE Spec2Model ----
(***************************************************************************)
(* State-machine model of the SimplicityHL language server back end        *)
(* (src/src/backend.rs): the document store behind a tokio RwLock, the     *)
(* edit pipeline on_change, and the hover / completion / goto-definition   *)
(* readers.                                                                *)
(*                                                                         *)
(* Text is a sequence of one-character strings.  The compiler front end    *)
(* (simplicityhl::parse / ::ast) is an external library; it is modelled by *)
(* a line-oriented stand-in grammar:                                       *)
(*   - an empty line or a line starting with "/" is skipped;               *)
(*   - a line starting with "t" is a type alias item;                      *)
(*   - a line  n c1 .. ck  with n a function name and every ci a call      *)
(*     character declares  fn n() { c1(c2(..ck())) } : call ci spans       *)
(*     columns 1+i .. 1+k of that line, so the calls are properly nested   *)
(*     and listed in pre-order;                                            *)
(*   - any other line is a syntax error;                                   *)
(*   - analysis fails on a call to a function no line declares.            *)
(***************************************************************************)
EXTENDS Integers, Sequences, FiniteSets, TLC

\* Option<T>: None, or Some(x) holding x
None == <<>>

Some(x) == <<x>>

Unwrap(o) == o[1]

-----------------------------------------------------------------------------
(* Machine integers.  A usize or u32 value v is the record                 *)
(* [hi |-> v \div 2^16, lo |-> v % 2^16]: the checker's own integers stop  *)
(* short of u32::MAX.                                                      *)

Limb == 256 * 256

Num(n) == [hi |-> n \div Limb, lo |-> n % Limb]

\* u32::MAX, the largest editor coordinate
U32Max == [hi |-> Limb - 1, lo |-> Limb - 1]

\* u32::try_from(v).is_ok()
FitsU32(v) == v.hi < Limb

Succ(v) == IF v.lo = Limb - 1 THEN [hi |-> v.hi + 1, lo |-> 0]
           ELSE [hi |-> v.hi, lo |-> v.lo + 1]

\* v - 1 for v > 0
Pred(v) == IF v.lo = 0 THEN [hi |-> v.hi - 1, lo |-> Limb - 1]
           ELSE [hi |-> v.hi, lo |-> v.lo - 1]

NumLt(a, b) == a.hi < b.hi \/ (a.hi = b.hi /\ a.lo < b.lo)

NumLe(a, b) == a.hi < b.hi \/ (a.hi = b.hi /\ a.lo <= b.lo)

-----------------------------------------------------------------------------
(* Characters and strings *)

Whitespace == {" ", "\n", "\t"}

AlphaNumeric == {"a", "b", "e", "f", "g", "j", "t", "u", "c", "x", "3"}

StartsWith(s, p) == Len(s) >= Len(p) /\ SubSeq(s, 1, Len(p)) = p

EndsWith(s, p) == Len(s) >= Len(p) /\ SubSeq(s, Len(s) - Len(p) + 1, Len(s)) = p

RECURSIVE TrimEnd(_)
TrimEnd(s) ==
    IF s = <<>> THEN <<>>
    ELSE IF s[Len(s)] \in Whitespace THEN TrimEnd(SubSeq(s, 1, Len(s) - 1))
    ELSE s

RECURSIVE TrimStart(_)
TrimStart(s) ==
    IF s = <<>> THEN <<>>
    ELSE IF Head(s) \in Whitespace THEN TrimStart(Tail(s))
    ELSE s

Trim(s) == TrimStart(TrimEnd(s))

-----------------------------------------------------------------------------
(* ropey::Rope: the text as lines, each line keeping its line break *)

RECURSIVE RopeLines(_, _)
RopeLines(text, cur) ==
    IF text = <<>> THEN <<cur>>
    ELSE IF Head(text) = "\n"
         THEN <<Append(cur, "\n")>> \o RopeLines(Tail(text), <<>>)
         ELSE RopeLines(Tail(text), Append(cur, Head(text)))

RopeFromStr(text) == RopeLines(text, <<>>)

\* rope.get_line(i), i 0-based
get_line(rope, i) == IF i < Len(rope) THEN Some(rope[i + 1]) ELSE None

-----------------------------------------------------------------------------
(* Documentation extractor *)

DocMarker == <<"/", "/", "/">>

\* The grave accent U+0060 of a markdown fence, as one character.
Backtick == "GRAVE"

\* The backward scan of get_comments_from_lines over lines line-1 .. 0,
\* followed by lines.reverse(): the collected lines in source order.
\* Variant: a line that is not a doc line is skipped, and the scan goes on.
RECURSIVE CollectDocLines_SkipOthers(_, _)
CollectDocLines_SkipOthers(line, rope) ==
    IF line = 0 THEN <<>>
    ELSE LET text == get_line(rope, line - 1) IN
         IF text = None THEN <<>>
         ELSE IF StartsWith(Unwrap(text), DocMarker)
              THEN Append(CollectDocLines_SkipOthers(line - 1, rope),
                          TrimEnd(SubSeq(Unwrap(text), 4, Len(Unwrap(text)))))
              ELSE CollectDocLines_SkipOthers(line - 1, rope)

RECURSIVE CollectDocLines(_, _)
CollectDocLines(line, rope) ==
    IF line = 0 THEN <<>>
    ELSE LET text == get_line(rope, line - 1) IN
         IF text = None THEN <<>>
         ELSE IF StartsWith(Unwrap(text), DocMarker)
              THEN Append(CollectDocLines(line - 1, rope),
                          TrimEnd(SubSeq(Unwrap(text), 4, Len(Unwrap(text)))))
              ELSE <<>>

IsMdBlock(trimmed) ==
    \/ trimmed = <<>>
    \/ StartsWith(trimmed, <<"#">>)
    \/ StartsWith(trimmed, <<"-">>)
    \/ StartsWith(trimmed, <<"*">>)
    \/ StartsWith(trimmed, <<">">>)
    \/ StartsWith(trimmed, <<Backtick, Backtick, Backtick>>)
    \/ StartsWith(trimmed, <<" ", " ", " ", " ">>)

\* Variant: a line is joined to a non-empty result by a space whatever its class.
RECURSIVE Reflow_SpaceJoined(_, _, _)
Reflow_SpaceJoined(lines, result, prev_line_was_text) ==
    IF lines = <<>> THEN result
    ELSE LET trimmed == Trim(Head(lines))
             next == IF result = <<>> THEN trimmed
                     ELSE result \o <<" ">> \o trimmed
         IN Reflow_SpaceJoined(Tail(lines), next, TRUE)

\* Variant: every line starts a new line of the result.
RECURSIVE Reflow_LinePerLine(_, _, _)
Reflow_LinePerLine(lines, result, prev_line_was_text) ==
    IF lines = <<>> THEN result
    ELSE LET trimmed == Trim(Head(lines))
             next == IF result = <<>> THEN trimmed
                     ELSE result \o <<"\n">> \o trimmed
         IN Reflow_LinePerLine(Tail(lines), next, FALSE)

RECURSIVE Reflow(_, _, _)
Reflow(lines, result, prev_line_was_text) ==
    IF lines = <<>> THEN result
    ELSE LET trimmed == Trim(Head(lines))
             is_md_block == IsMdBlock(trimmed)
             next == IF result = <<>> THEN trimmed
                     ELSE IF prev_line_was_text /\ ~is_md_block
                          THEN result \o <<" ">> \o trimmed
                          ELSE result \o <<"\n">> \o trimmed
         IN Reflow(Tail(lines), next, trimmed # <<>> /\ ~is_md_block)

\* line is a u32.  A line index of 2^16 or more lies past the end of every
\* rope considered here, so get_line fails on the first iteration.
get_comments_from_lines(line, rope) ==
    IF line = Num(0) THEN <<>>
    ELSE IF line.hi > 0 THEN Reflow(<<>>, <<>>, FALSE)
    ELSE Reflow(CollectDocLines(line.lo, rope), <<>>, FALSE)

-----------------------------------------------------------------------------
(* Compiler front end (external): stand-in grammar *)

FnNames == {"f", "g"}

CallChars == FnNames \cup {"j", "u", "c"}

Pos(l, c) == [line |-> Num(l), col |-> Num(c)]

MkSpan(l1, c1, l2, c2) == [start |-> Pos(l1, c1), end |-> Pos(l2, c2)]

CallNameOf(ch) ==
    IF ch \in FnNames THEN [kind |-> "Custom", id |-> ch]
    ELSE IF ch = "j" THEN [kind |-> "Jet", id |-> "j"]
    ELSE IF ch = "u" THEN [kind |-> "Unwrap", id |-> "unwrap"]
    ELSE [kind |-> "TypeCast", id |-> "cast"]

LineBody(l) ==
    IF l # <<>> /\ l[Len(l)] = "\n" THEN SubSeq(l, 1, Len(l) - 1) ELSE l

LineKind(b) ==
    IF b = <<>> \/ b[1] = "/" THEN "skip"
    ELSE IF b = <<"t">> THEN "alias"
    ELSE IF b[1] \in FnNames /\ \A i \in 2..Len(b) : b[i] \in CallChars THEN "fn"
    ELSE "bad"

\* A node of parse::ExprTree: a call, or an expression of another kind, with
\* its sub-expressions in source order.
CallNode(name, span, args) == [kind |-> "Call", name |-> name, span |-> span, args |-> args]

ExprNode(span, args) ==
    [kind |-> "Expression", name |-> [kind |-> "None", id |-> ""], span |-> span,
     args |-> args]

\* The calls c_j(c_j+1(..c_k())) of a function line, nested.
RECURSIVE ChainFrom(_, _, _)
ChainFrom(b, ln, j) ==
    CallNode(CallNameOf(b[j + 1]), MkSpan(ln, j + 1, ln, Len(b)),
             IF j + 1 < Len(b) THEN <<ChainFrom(b, ln, j + 1)>> ELSE <<>>)

\* The item a source line (1-based number ln) declares.
ItemOf(b, ln) ==
    IF LineKind(b) = "alias"
    THEN [item |-> "TypeAlias", name |-> "t", span |-> MkSpan(ln, 1, ln, 1),
          body |-> ExprNode(MkSpan(ln, 1, ln, 1), <<>>)]
    ELSE [item |-> "Function", name |-> b[1],
          span |-> MkSpan(ln, 1, ln, Len(b)),
          body |-> ExprNode(MkSpan(ln, 1, ln, Len(b)),
                            IF Len(b) > 1 THEN <<ChainFrom(b, ln, 1)>> ELSE <<>>)]

\* TreeLike::pre_order_iter: a node, then the nodes of each of its
\* sub-expressions, left to right.
RECURSIVE pre_order_iter(_)
RECURSIVE PreOrderAll(_)
pre_order_iter(tree) == <<tree>> \o PreOrderAll(tree.args)

PreOrderAll(trees) ==
    IF trees = <<>> THEN <<>>
    ELSE pre_order_iter(Head(trees)) \o PreOrderAll(Tail(trees))

\* .filter_map(|expr| if let ExprTree::Call(call) = expr { Some(call) } ..)
CallsOf(body) == SelectSeq(pre_order_iter(body), LAMBDA n : n.kind = "Call")

RECURSIVE ItemsFrom(_, _)
ItemsFrom(rope, ln) ==
    IF ln > Len(rope) THEN <<>>
    ELSE LET b == LineBody(rope[ln]) IN
         IF LineKind(b) \in {"fn", "alias"}
         THEN <<ItemOf(b, ln)>> \o ItemsFrom(rope, ln + 1)
         ELSE ItemsFrom(rope, ln + 1)

\* An error span that the front end places beyond what u32 can hold (a
\* source line of 2^32 columns or more).
FarSpan(span) ==
    [start |-> span.start,
     end |-> [line |-> span.end.line, col |-> Succ(U32Max)]]

RichError(msg, span, far) ==
    [error |-> msg, span |-> IF far THEN FarSpan(span) ELSE span]

\* parse::Program::parse_from_str
parse_from_str(text, far) ==
    LET rope == RopeFromStr(text)
        bad  == {ln \in 1..Len(rope) : LineKind(LineBody(rope[ln])) = "bad"}
    IN IF bad # {}
       THEN LET ln == CHOOSE l \in bad : \A m \in bad : l <= m
            IN [ok |-> FALSE,
                err |-> RichError("Cannot parse", MkSpan(ln, 1, ln, Len(LineBody(rope[ln]))), far)]
       ELSE [ok |-> TRUE, items |-> ItemsFrom(rope, 1)]

\* ast::Program::analyze(..).with_file(text).err()
analyze(program, far) ==
    LET items    == program.items
        declared == {items[i].name : i \in {k \in 1..Len(items) : items[k].item = "Function"}}
        undef    == UNION {{<<i, j>> : j \in {k \in 1..Len(CallsOf(items[i].body)) :
                                /\ CallsOf(items[i].body)[k].name.kind = "Custom"
                                /\ CallsOf(items[i].body)[k].name.id \notin declared}} :
                           i \in 1..Len(items)}
    IN IF undef = {} THEN None
       ELSE LET first == CHOOSE ij \in undef : \A o \in undef :
                            ij[1] < o[1] \/ (ij[1] = o[1] /\ ij[2] <= o[2])
            IN Some(RichError("Function was called but not defined",
                              CallsOf(items[first[1]].body)[first[2]].span, far))

-----------------------------------------------------------------------------
(* Document construction (backend.rs) *)

\* u32::try_from(func.as_ref().start.line.get()).unwrap_or_default() - 1
\* (a line that does not fit u32 gives 0 - 1, which wraps to u32::MAX in a
\* release build)
StartLineOf(func) ==
    IF FitsU32(func.span.start.line) THEN Pred(func.span.start.line)
    ELSE U32Max

\* Variant: a function without doc comment gets no functions_docs entry.
RECURSIVE ForEachFunction_SkipUndocumented(_, _)
ForEachFunction_SkipUndocumented(items, document) ==
    IF items = <<>> THEN document
    ELSE LET func == Head(items)
             doc  == get_comments_from_lines(StartLineOf(func), document.text)
         IN
         IF func.item # "Function"
         THEN ForEachFunction_SkipUndocumented(Tail(items), document)
         ELSE ForEachFunction_SkipUndocumented(Tail(items),
                [functions |-> Append(document.functions, func),
                 functions_docs |->
                     IF doc = <<>> THEN document.functions_docs
                     ELSE (func.name :> doc) @@ document.functions_docs,
                 text |-> document.text])

\* Variant: the first entry written for a name is kept.
RECURSIVE ForEachFunction_FirstWins(_, _)
ForEachFunction_FirstWins(items, document) ==
    IF items = <<>> THEN document
    ELSE LET func == Head(items) IN
         IF func.item # "Function" THEN ForEachFunction_FirstWins(Tail(items), document)
         ELSE ForEachFunction_FirstWins(Tail(items),
                [functions |-> Append(document.functions, func),
                 functions_docs |->
                     document.functions_docs
                         @@ (func.name :> get_comments_from_lines(StartLineOf(func),
                                                                  document.text)),
                 text |-> document.text])

RECURSIVE ForEachFunction(_, _)
ForEachFunction(items, document) ==
    IF items = <<>> THEN document
    ELSE LET func == Head(items) IN
         IF func.item # "Function" THEN ForEachFunction(Tail(items), document)
         ELSE ForEachFunction(Tail(items),
                [functions |-> Append(document.functions, func),
                 functions_docs |->
                     (func.name :> get_comments_from_lines(StartLineOf(func), document.text))
                         @@ document.functions_docs,
                 text |-> document.text])

create_document(program, text) ==
    ForEachFunction(program.items,
                    [functions |-> <<>>, functions_docs |-> <<>>,
                     text |-> RopeFromStr(text)])

\* Variant: a program that fails analysis yields no Document.
parse_program_NoDocumentOnAnalysisError(text, far) ==
    LET program == parse_from_str(text, far) IN
    IF ~program.ok THEN [err |-> Some(program.err), document |-> None]
    ELSE IF analyze(program, far) # None
    THEN [err |-> analyze(program, far), document |-> None]
    ELSE [err |-> None, document |-> Some(create_document(program, text))]

\* Returns the pair (Option<RichError>, Option<Document>).
parse_program(text, far) ==
    LET program == parse_from_str(text, far) IN
    IF ~program.ok THEN [err |-> Some(program.err), document |-> None]
    ELSE [err |-> analyze(program, far),
          document |-> Some(create_document(program, text))]

-----------------------------------------------------------------------------
(* Coordinate translator (utils.rs) *)

position_le(a, b) == NumLt(a.line, b.line) \/ (a.line = b.line /\ NumLe(a.col, b.col))

position_ge(a, b) == NumLt(b.line, a.line) \/ (a.line = b.line /\ NumLe(b.col, a.col))

span_contains(a, b) == position_le(a.start, b.start) /\ position_ge(a.end, b.end)

\* Variant: the coordinates are passed on as they are.
span_to_positions_Unshifted(span) ==
    IF ~FitsU32(span.start.line) \/ ~FitsU32(span.start.col)
       \/ ~FitsU32(span.end.line) \/ ~FitsU32(span.end.col)
    THEN [ok |-> FALSE, err |-> "overflow"]
    ELSE [ok |-> TRUE,
          start |-> [line |-> span.start.line, character |-> span.start.col],
          end |-> [line |-> span.end.line, character |-> span.end.col]]

\* Variant: `as u32` casts, which keep the low 32 bits and never fail.
span_to_positions_Truncating(span) ==
    LET Cast(v) == [hi |-> v.hi % Limb, lo |-> v.lo]
        Dec(v)  == IF v = Num(0) THEN U32Max ELSE Pred(v)
    IN [ok |-> TRUE,
        start |-> [line |-> Dec(Cast(span.start.line)), character |-> Dec(Cast(span.start.col))],
        end |-> [line |-> Dec(Cast(span.end.line)), character |-> Dec(Cast(span.end.col))]]

span_to_positions(span) ==
    IF ~FitsU32(span.start.line) THEN [ok |-> FALSE, err |-> "line overflow"]
    ELSE IF ~FitsU32(span.start.col) THEN [ok |-> FALSE, err |-> "col overflow"]
    ELSE IF ~FitsU32(span.end.line) THEN [ok |-> FALSE, err |-> "line overflow"]
    ELSE IF ~FitsU32(span.end.col) THEN [ok |-> FALSE, err |-> "col overflow"]
    ELSE [ok |-> TRUE,
          start |-> [line |-> Pred(span.start.line), character |-> Pred(span.start.col)],
          end |-> [line |-> Pred(span.end.line), character |-> Pred(span.end.col)]]

\* main.rs, span_to_positions: `x as u32 - 1` on each coordinate.  The cast
\* keeps the low 32 bits; the subtraction on 0 panics in a build with
\* overflow checks and wraps to u32::MAX in one without.
main_span_to_positions(span, overflow_checks) ==
    LET Cast(v) == [hi |-> v.hi % Limb, lo |-> v.lo]
        Dec(v)  == IF v = Num(0) THEN U32Max ELSE Pred(v)
        coords  == {span.start.line, span.start.col, span.end.line, span.end.col}
    IN IF overflow_checks /\ \E v \in coords : Cast(v) = Num(0)
       THEN [panicked |-> TRUE]
       ELSE [panicked |-> FALSE,
             start |-> [line |-> Dec(Cast(span.start.line)),
                        character |-> Dec(Cast(span.start.col))],
             end |-> [line |-> Dec(Cast(span.end.line)),
                      character |-> Dec(Cast(span.end.col))]]

\* v + 1 on a u32 v overflows
AddOverflows(v) == v = U32Max

\* (v + 1) as usize for a u32 v where the addition does not panic: the sum
\* of u32::MAX and 1 wraps to 0 when the build has overflow checks off
AddOneU32(v) == IF v = U32Max THEN Num(0) ELSE Succ(v)

\* A call that ended in a panic, for the operators that return an Option.
Panic == <<"panicked", "attempt to add with overflow">>

\* Err(Error::invalid_params(msg))
InvalidParams(msg) == [ok |-> FALSE, panicked |-> FALSE, err |-> msg]

\* The addition of a build with overflow checks panicked.
AddPanicked == [ok |-> FALSE, panicked |-> TRUE]

\* overflow_checks: whether the build panics on integer overflow (the
\* default of a debug build) or wraps (the default of a release build)
positions_to_span(p0, p1, overflow_checks) ==
    IF overflow_checks /\ (\/ AddOverflows(p0.line) \/ AddOverflows(p0.character)
                            \/ AddOverflows(p1.line) \/ AddOverflows(p1.character))
    THEN AddPanicked
    ELSE IF AddOneU32(p0.line) = Num(0)
    THEN InvalidParams("start line must be non-zero")
    ELSE IF AddOneU32(p0.character) = Num(0)
    THEN InvalidParams("start column must be non-zero")
    ELSE IF AddOneU32(p1.line) = Num(0)
    THEN InvalidParams("end line must be non-zero")
    ELSE IF AddOneU32(p1.character) = Num(0)
    THEN InvalidParams("end column must be non-zero")
    ELSE [ok |-> TRUE, panicked |-> FALSE,
          span |-> [start |-> [line |-> AddOneU32(p0.line), col |-> AddOneU32(p0.character)],
                    end |-> [line |-> AddOneU32(p1.line), col |-> AddOneU32(p1.character)]]]

\* Variant: the span ends one column after the position.
position_to_span_Widened(position, overflow_checks) ==
    IF overflow_checks /\ (AddOverflows(position.line) \/ AddOverflows(position.character))
    THEN AddPanicked
    ELSE IF AddOneU32(position.line) = Num(0)
    THEN InvalidParams("start line must be non-zero")
    ELSE IF AddOneU32(position.character) = Num(0)
    THEN InvalidParams("start column must be non-zero")
    ELSE [ok |-> TRUE, panicked |-> FALSE,
          span |-> [start |-> [line |-> AddOneU32(position.line),
                               col |-> AddOneU32(position.character)],
                    end |-> [line |-> AddOneU32(position.line),
                             col |-> Succ(AddOneU32(position.character))]]]

position_to_span(position, overflow_checks) ==
    IF overflow_checks /\ (AddOverflows(position.line) \/ AddOverflows(position.character))
    THEN AddPanicked
    ELSE IF AddOneU32(position.line) = Num(0)
    THEN InvalidParams("start line must be non-zero")
    ELSE IF AddOneU32(position.character) = Num(0)
    THEN InvalidParams("start column must be non-zero")
    ELSE [ok |-> TRUE, panicked |-> FALSE,
          span |-> [start |-> [line |-> AddOneU32(position.line),
                               col |-> AddOneU32(position.character)],
                    end |-> [line |-> AddOneU32(position.line),
                             col |-> AddOneU32(position.character)]]]

-----------------------------------------------------------------------------
(* Symbol and call resolver (backend.rs) *)

\* Variant: .next() in place of .last()
find_related_call_FirstCall(functions, token_span) ==
    LET inside == {i \in 1..Len(functions) : span_contains(functions[i].span, token_span)}
    IN IF inside = {} THEN None
       ELSE LET func  == functions[CHOOSE i \in inside : \A k \in inside : i <= k]
                calls == SelectSeq(CallsOf(func.body),
                                   LAMBDA c : span_contains(c.span, token_span))
            IN IF calls = <<>> THEN None ELSE Some(calls[1])

\* Variant: the calls are not filtered by span.
find_related_call_AnyCall(functions, token_span) ==
    LET inside == {i \in 1..Len(functions) : span_contains(functions[i].span, token_span)}
    IN IF inside = {} THEN None
       ELSE LET func  == functions[CHOOSE i \in inside : \A k \in inside : i <= k]
                calls == CallsOf(func.body)
            IN IF calls = <<>> THEN None ELSE Some(calls[Len(calls)])

find_related_call(functions, token_span) ==
    LET inside == {i \in 1..Len(functions) : span_contains(functions[i].span, token_span)}
    IN IF inside = {} THEN None
       ELSE LET func  == functions[CHOOSE i \in inside : \A k \in inside : i <= k]
                calls == SelectSeq(CallsOf(func.body),
                                   LAMBDA c : span_contains(c.span, token_span))
            IN IF calls = <<>> THEN None ELSE Some(calls[Len(calls)])

\* call.name().to_string().len(), the name as the stand-in grammar writes it
NameLength(name) == Len(name.id)

\* utils.rs: the span of the name of the call, from the start of the call
\* over the length of the name
get_call_span(call) ==
    LET end_column == call.span.start.col.lo + NameLength(call.name)
    IN [start |-> call.span.start,
        end |-> [line |-> call.span.start.line,
                 col |-> [hi |-> call.span.start.col.hi + end_column \div Limb,
                          lo |-> end_column % Limb]]]

\* utils.rs: find_related_call, with its error messages
utils_find_related_call(functions, token_span) ==
    LET inside == {i \in 1..Len(functions) : span_contains(functions[i].span, token_span)}
    IN IF inside = {} THEN [ok |-> FALSE, err |-> "given span not inside function"]
       ELSE LET func  == functions[CHOOSE i \in inside : \A k \in inside : i <= k]
                calls == SelectSeq(CallsOf(func.body),
                                   LAMBDA c : span_contains(get_call_span(c), token_span))
            IN IF calls = <<>> THEN [ok |-> FALSE, err |-> "no related call found"]
               ELSE [ok |-> TRUE, call |-> calls[Len(calls)]]

\* functions.iter().find(|f| f.name() == name)
FindFunction(functions, name) ==
    LET named == {i \in 1..Len(functions) : functions[i].name = name}
    IN IF named = {} THEN None
       ELSE Some(functions[CHOOSE i \in named : \A k \in named : i <= k])

-----------------------------------------------------------------------------
(* Templates and completion candidates (completion/mod.rs, builtin.rs) *)

\* jets Elements::from_str accepts
KnownJets == {"j"}

Template(name, ret, doc) ==
    [display_name |-> name, return_type |-> ret, description |-> doc]

jet_to_template(jet) == Template(jet, "jet", <<>>)

function_to_template(func, doc) == Template(func.name, "()", doc)

\* Variant: a type cast has a template of its own.
match_callname_WithTypeCast(name) ==
    IF name.kind \in {"Jet", "Custom"} THEN None
    ELSE Some(Template(name.id, "T", <<>>))

\* display name and return type of the template of each construct
match_callname(name) ==
    IF name.kind = "UnwrapLeft" THEN Some(Template("unwrap_left", "T", <<>>))
    ELSE IF name.kind = "UnwrapRight" THEN Some(Template("unwrap_right", "T", <<>>))
    ELSE IF name.kind = "Unwrap" THEN Some(Template("unwrap", "T", <<>>))
    ELSE IF name.kind = "IsNone" THEN Some(Template("is_none", "bool", <<>>))
    ELSE IF name.kind = "Assert" THEN Some(Template("assert!", "()", <<>>))
    ELSE IF name.kind = "Panic" THEN Some(Template("panic!", "()", <<>>))
    ELSE IF name.kind = "Debug" THEN Some(Template("dbg!", "T", <<>>))
    ELSE IF name.kind = "Fold" THEN Some(Template("fold", "A", <<>>))
    ELSE IF name.kind = "ArrayFold" THEN Some(Template("array_fold", "A", <<>>))
    ELSE IF name.kind = "ForWhile" THEN Some(Template("for_while", "Either<B, A>", <<>>))
    ELSE None

\* the call names get_builtin_functions lists, in its order
BuiltinCallNames ==
    <<[kind |-> "UnwrapLeft", id |-> "unwrap_left"],
      [kind |-> "UnwrapRight", id |-> "unwrap_right"],
      [kind |-> "Unwrap", id |-> "unwrap"],
      [kind |-> "IsNone", id |-> "is_none"],
      [kind |-> "Assert", id |-> "assert"],
      [kind |-> "Debug", id |-> "dbg"],
      [kind |-> "Panic", id |-> "panic"],
      [kind |-> "Fold", id |-> "fold"],
      [kind |-> "ArrayFold", id |-> "array_fold"],
      [kind |-> "ForWhile", id |-> "for_while"]>>

\* functions.iter().filter_map(match_callname).collect()
RECURSIVE FilterMapTemplates(_)
FilterMapTemplates(names) ==
    IF names = <<>> THEN <<>>
    ELSE LET template == match_callname(Head(names)) IN
         IF template = None THEN FilterMapTemplates(Tail(names))
         ELSE <<Unwrap(template)>> \o FilterMapTemplates(Tail(names))

get_builtin_functions == FilterMapTemplates(BuiltinCallNames)

template_to_completion(template) ==
    [label |-> template.display_name, kind |-> "FUNCTION",
     documentation |-> Some(template.description)]

module_to_completion(module) ==
    [label |-> module, kind |-> "MODULE", documentation |-> None]

Jets == <<template_to_completion(jet_to_template("j"))>>

Builtins ==
    [i \in 1..Len(get_builtin_functions) |->
        template_to_completion(get_builtin_functions[i])]

Modules == <<module_to_completion("jet"), module_to_completion("param"),
             module_to_completion("witness")>>

get_function_completions(functions) ==
    [i \in 1..Len(functions) |->
        template_to_completion(function_to_template(functions[i][1], functions[i][2]))]

-----------------------------------------------------------------------------
(* Templates as text (completion/types.rs).  A text is the sequence of the *)
(* pieces that format! puts together.                                       *)

\* FunctionCompletionTemplate::new
FunctionCompletionTemplate(display_name, snippet_base, generics, args, return_type, description) ==
    [display_name |-> display_name, snippet_base |-> snippet_base,
     generics |-> generics, args |-> args, return_type |-> return_type,
     description |-> description]

\* .collect::<Vec<_>>().join(", ") over texts
RECURSIVE Join(_, _)
Join(parts, sep) ==
    IF parts = <<>> THEN <<>>
    ELSE IF Len(parts) = 1 THEN parts[1]
    ELSE parts[1] \o sep \o Join(Tail(parts), sep)

\* format!("${{{}:{}}}", number, item)
Placeholder(number, item) == <<"${", ToString(number), ":", item, "}">>

\* .iter().enumerate().map(|(index, item)| ..): index counts from 0
get_snippet_name(self) ==
    <<self.snippet_base, "::<">>
        \o Join([i \in 1..Len(self.generics) |->
                    Placeholder((i - 1) + 1, self.generics[i])], <<", ">>)
        \o <<">">>

\* Variant: the arguments are numbered from 1 like the generics.
get_insert_text_ArgsFromOne(self) ==
    (IF self.generics = <<>> THEN <<self.snippet_base>> ELSE get_snippet_name(self))
        \o <<"(">>
        \o Join([i \in 1..Len(self.args) |->
                    Placeholder((i - 1) + 1, self.args[i])], <<", ">>)
        \o <<")">>

get_insert_text(self) ==
    (IF self.generics = <<>> THEN <<self.snippet_base>> ELSE get_snippet_name(self))
        \o <<"(">>
        \o Join([i \in 1..Len(self.args) |->
                    Placeholder((i - 1) + 1 + Len(self.generics), self.args[i])], <<", ">>)
        \o <<")">>

get_signature(self) ==
    <<"fn(">>
        \o Join([i \in 1..Len(self.args) |-> <<self.args[i]>>], <<", ">>)
        \o <<") -> ">>
        \o <<IF self.return_type = "" THEN "()" ELSE self.return_type>>

-----------------------------------------------------------------------------
(* Query handlers (backend.rs), as functions of the Document a handler     *)
(* reads through its guard; document = None when the uri has no entry      *)

\* The last piece of prefix.rsplit(|c| !c.is_alphanumeric() && c != ':')
RECURSIVE LastSegment(_)
LastSegment(s) ==
    IF s = <<>> THEN <<>>
    ELSE IF s[Len(s)] \notin AlphaNumeric /\ s[Len(s)] # ":" THEN <<>>
    ELSE Append(LastSegment(SubSeq(s, 1, Len(s) - 1)), s[Len(s)])

\* rsplit(..).next(): the iterator always yields a first piece.
rsplit_next(s) == Some(LastSegment(s))

JetPrefix == <<"j", "e", "t", ":", ":">>

\* Variant: every function is paired with an empty documentation.
PairWithDocs_NoDocs(document) ==
    [i \in 1..Len(document.functions) |-> <<document.functions[i], <<>> >>]

PairWithDocs(document) ==
    [i \in 1..Len(document.functions) |->
        <<document.functions[i],
          IF document.functions[i].name \in DOMAIN document.functions_docs
          THEN document.functions_docs[document.functions[i].name]
          ELSE <<>> >>]

\* Variant: the modules follow the jets after the jet namespace prefix.
completion_JetsAndModules(documents_get, pos) ==
    IF documents_get = None THEN <<>>
    ELSE LET doc  == Unwrap(documents_get)
             line == IF pos.line.hi > 0 THEN None
                     ELSE get_line(doc.text, pos.line.lo)
         IN
         IF line = None THEN <<>>
         ELSE IF pos.character.hi > 0 \/ pos.character.lo > Len(Unwrap(line)) THEN <<>>
         ELSE LET prefix == SubSeq(Unwrap(line), 1, pos.character.lo)
                  trimmed_prefix == TrimEnd(prefix)
                  last == rsplit_next(trimmed_prefix)
              IN IF last # None /\ StartsWith(Unwrap(last), JetPrefix \o <<":">>) THEN <<>>
                 ELSE IF last # None /\ StartsWith(Unwrap(last), JetPrefix)
                 THEN Jets \o Modules
                 ELSE IF last = None /\ EndsWith(trimmed_prefix, <<":">>) THEN <<>>
                 ELSE get_function_completions(PairWithDocs(doc))
                        \o Builtins \o Modules

\* Variant: an offset past the end of the line is cut down to the line.
completion_ClampedOffset(documents_get, pos) ==
    IF documents_get = None THEN <<>>
    ELSE LET doc  == Unwrap(documents_get)
             line == IF pos.line.hi > 0 THEN None
                     ELSE get_line(doc.text, pos.line.lo)
         IN
         IF line = None THEN <<>>
         ELSE LET end == IF pos.character.hi > 0 \/ pos.character.lo > Len(Unwrap(line))
                         THEN Len(Unwrap(line)) ELSE pos.character.lo
                  prefix == SubSeq(Unwrap(line), 1, end)
                  trimmed_prefix == TrimEnd(prefix)
                  last == rsplit_next(trimmed_prefix)
              IN IF last # None /\ StartsWith(Unwrap(last), JetPrefix \o <<":">>) THEN <<>>
                 ELSE IF last # None /\ StartsWith(Unwrap(last), JetPrefix) THEN Jets
                 ELSE IF last = None /\ EndsWith(trimmed_prefix, <<":">>) THEN <<>>
                 ELSE get_function_completions(PairWithDocs(doc))
                        \o Builtins \o Modules

completion(documents_get, pos) ==
    IF documents_get = None THEN <<>>
    ELSE LET doc  == Unwrap(documents_get)
             line == IF pos.line.hi > 0 THEN None
                     ELSE get_line(doc.text, pos.line.lo)
         IN
         IF line = None THEN <<>>
         ELSE IF pos.character.hi > 0 \/ pos.character.lo > Len(Unwrap(line)) THEN <<>>
         ELSE LET prefix == SubSeq(Unwrap(line), 1, pos.character.lo)
                  trimmed_prefix == TrimEnd(prefix)
                  last == rsplit_next(trimmed_prefix)
              IN IF last # None /\ StartsWith(Unwrap(last), JetPrefix \o <<":">>) THEN <<>>
                 ELSE IF last # None /\ StartsWith(Unwrap(last), JetPrefix) THEN Jets
                 ELSE IF last = None /\ EndsWith(trimmed_prefix, <<":">>) THEN <<>>
                 ELSE get_function_completions(PairWithDocs(doc))
                        \o Builtins \o Modules

\* CompletionProvider::process_completions: the classification of a prefix,
\* None when no completion applies.
process_completions(prefix, functions) ==
    LET last == rsplit_next(prefix)
    IN IF last # None /\ (Unwrap(last) = JetPrefix \/ StartsWith(Unwrap(last), JetPrefix))
       THEN Some(Jets)
       ELSE IF EndsWith(prefix, <<":">>) THEN None
       ELSE Some(get_function_completions(functions) \o Builtins \o Modules)

\* The template a hover shows for a resolved call.
HoverTemplate(document, name) ==
    IF name.kind = "Jet"
    THEN IF name.id \in KnownJets THEN Some(jet_to_template(name.id)) ELSE None
    ELSE IF name.kind = "Custom"
    THEN LET function == FindFunction(document.functions, name.id) IN
         IF function = None THEN None
         ELSE IF name.id \notin DOMAIN document.functions_docs THEN None
         ELSE Some(function_to_template(Unwrap(function),
                                        document.functions_docs[name.id]))
    ELSE match_callname(name)

provide_hover(documents_get, pos, overflow_checks) ==
    IF documents_get = None THEN None
    ELSE LET document   == Unwrap(documents_get)
             token_span == positions_to_span(pos, pos, overflow_checks)
         IN
         IF token_span.panicked THEN Panic
         ELSE IF ~token_span.ok THEN None
         ELSE LET call == find_related_call(document.functions, token_span.span) IN
              IF call = None THEN None
              ELSE LET range == span_to_positions(Unwrap(call).span)
                       description == HoverTemplate(document, Unwrap(call).name)
                   IN IF ~range.ok \/ description = None THEN None
                      ELSE Some([contents |-> Unwrap(description),
                                 range |-> [start |-> range.start, end |-> range.end]])

goto_definition(documents_get, pos, uri, overflow_checks) ==
    IF documents_get = None THEN None
    ELSE LET document   == Unwrap(documents_get)
             token_span == positions_to_span(pos, pos, overflow_checks)
         IN
         IF token_span.panicked THEN Panic
         ELSE IF ~token_span.ok THEN None
         ELSE LET call == find_related_call(document.functions, token_span.span) IN
              IF call = None THEN None
              ELSE IF Unwrap(call).name.kind # "Custom" THEN None
              ELSE LET function == FindFunction(document.functions, Unwrap(call).name.id) IN
                   IF function = None THEN None
                   ELSE LET range == span_to_positions(Unwrap(function).span) IN
                        IF ~range.ok THEN None
                        ELSE Some([uri |-> uri,
                                   range |-> [start |-> range.start, end |-> range.end]])

-----------------------------------------------------------------------------
(* The server: document store, lock, handler tasks, client *)

\* most on_change invocations / queries in one behaviour
MaxEdits == 3

MaxQueries == 2

Uris == {"u1", "u2"}

\* tasks the protocol layer runs concurrently
Editors == {"e1", "e2"}

Queries == {"q1"}

\* /// a        fn g, documented "a", and fn f calling g
\* g
\* fg
TextValid == <<"/", "/", "/", " ", "a", "\n", "g", "\n", "f", "g">>

\* /// b        fn f calling g, which is not declared: parses, fails analysis
\* fg
TextUndefined == <<"/", "/", "/", " ", "b", "\n", "f", "g">>

\* !            does not parse
TextSyntaxErr == <<"!">>

Texts == {TextValid, TextUndefined, TextSyntaxErr}

\* texts did_save is given
SavedTexts == {TextValid}

Versions == {1}

\* the cursor on the call to g in the last line of TextValid, and after the
\* first character of a text
Positions == {[line |-> Num(2), character |-> Num(1)],
              [line |-> Num(0), character |-> Num(1)]}

QueryKinds == {"completion", "hover", "goto_definition"}

VARIABLES
    document_map,   \* Arc<RwLock<HashMap<Uri, Document>>>: the map
    write_guard,    \* the task holding the RwLock's write guard, or None
    read_guards,    \* the tasks holding read guards
    edit,           \* per edit task: position in on_change and its locals
    query,          \* per query task: position in the handler and its locals
    client,         \* per edit task: what its current on_change sent to the client
    edits_left,     \* per edit task: the notifications it may still be handed
    queries_left,   \* the requests that may still arrive
    calc            \* a pure function under study: its input and what it returned

vars == <<document_map, write_guard, read_guards, edit, query, client,
          edits_left, queries_left, calc>>

\* old: the entry of uri as on_change found it when it took the write guard
IdleEdit == [pc |-> "idle", uri |-> "", text |-> <<>>, version |-> None,
             err |-> None, document |-> None, old |-> None]

IdleQuery == [pc |-> "idle", kind |-> "", uri |-> "", position |-> None,
              seen |-> None, result |-> None]

NothingSent == [published |-> <<>>, logged |-> <<>>]

\* no pure function is under study
NoCalc == [stage |-> "none"]

\* Backend::new, with one edit task at work: notifications are handled one
\* after the other, requests concurrently with them
Init ==
    /\ document_map = [u \in Uris |-> None]
    /\ write_guard = None
    /\ read_guards = {}
    /\ edit = [e \in Editors |-> IdleEdit]
    /\ query = [q \in Queries |-> IdleQuery]
    /\ client = [e \in Editors |-> NothingSent]
    /\ edits_left = [e \in Editors |-> IF e = "e1" THEN MaxEdits ELSE 0]
    /\ queries_left = MaxQueries
    /\ calc = NoCalc

\* the variables of the server, which the study of a pure function leaves alone
server_vars == <<document_map, write_guard, read_guards, edit, query, client,
                 edits_left, queries_left>>

\* a server no notification or request reaches
ServerAtRest ==
    /\ document_map = [u \in Uris |-> None]
    /\ write_guard = None
    /\ read_guards = {}
    /\ edit = [e \in Editors |-> IdleEdit]
    /\ query = [q \in Queries |-> IdleQuery]
    /\ client = [e \in Editors |-> NothingSent]
    /\ edits_left = [e \in Editors |-> 0]
    /\ queries_left = 0

\* Variant: on_change takes the write guard before it parses.
EnterOnChange_LockFirst(e, uri, text, version) ==
    /\ edit[e].pc \in {"idle", "done", "returned", "panicked"}
    /\ edits_left[e] > 0
    /\ write_guard = None
    /\ read_guards = {}
    /\ write_guard' = Some(e)
    /\ edits_left' = [edits_left EXCEPT ![e] = @ - 1]
    /\ edit' = [edit EXCEPT ![e] =
                  [pc |-> "parse", uri |-> uri, text |-> text, version |-> version,
                   err |-> None, document |-> None, old |-> None]]
    /\ client' = [client EXCEPT ![e] = NothingSent]
    /\ UNCHANGED <<calc, document_map, read_guards, query, queries_left>>

\* on_change is entered with params; its first statement, parse_program,
\* has yet to run
EnterOnChange(e, uri, text, version) ==
    /\ edit[e].pc \in {"idle", "done", "returned", "panicked"}
    /\ edits_left[e] > 0
    /\ edits_left' = [edits_left EXCEPT ![e] = @ - 1]
    /\ edit' = [edit EXCEPT ![e] =
                  [pc |-> "parse", uri |-> uri, text |-> text, version |-> version,
                   err |-> None, document |-> None, old |-> None]]
    /\ client' = [client EXCEPT ![e] = NothingSent]
    /\ UNCHANGED <<calc, document_map, write_guard, read_guards, query, queries_left>>

did_open(e, uri, text, version) == EnterOnChange(e, uri, text, Some(version))

\* &params.content_changes[0].text panics on an empty list
did_change(e, uri, content_changes, version) ==
    IF content_changes # <<>>
    THEN EnterOnChange(e, uri, content_changes[1], Some(version))
    ELSE /\ edit[e].pc \in {"idle", "done", "returned", "panicked"}
         /\ edits_left[e] > 0
         /\ edits_left' = [edits_left EXCEPT ![e] = @ - 1]
         /\ edit' = [edit EXCEPT ![e] = [IdleEdit EXCEPT !.pc = "panicked"]]
         /\ client' = [client EXCEPT ![e] = NothingSent]
         /\ UNCHANGED <<calc, document_map, write_guard, read_guards, query, queries_left>>

did_save(e, uri, text) ==
    IF text # None
    THEN EnterOnChange(e, uri, Unwrap(text), None)
    ELSE /\ edit[e].pc \in {"idle", "done", "returned", "panicked"}
         /\ edits_left[e] > 0
         /\ edits_left' = [edits_left EXCEPT ![e] = @ - 1]
         /\ edit' = [edit EXCEPT ![e] = [IdleEdit EXCEPT !.pc = "returned"]]
         /\ client' = [client EXCEPT ![e] = NothingSent]
         /\ UNCHANGED <<calc, document_map, write_guard, read_guards, query, queries_left>>

\* on_change line 254: let (err, document) = parse_program(params.text)
on_change_parse(e) ==
    /\ edit[e].pc = "parse"
    /\ \E far \in BOOLEAN :
          LET r == parse_program(edit[e].text, far) IN
          edit' = [edit EXCEPT ![e].pc = "wait_write", ![e].err = r.err,
                               ![e].document = r.document]
    /\ UNCHANGED <<calc, document_map, write_guard, read_guards, query, client,
                   edits_left, queries_left>>

\* Variant: the write guard is granted while read guards are out.
on_change_write_IgnoringReaders(e) ==
    /\ edit[e].pc = "wait_write"
    /\ write_guard = None
    /\ write_guard' = Some(e)
    /\ edit' = [edit EXCEPT ![e].pc = "locked"]
    /\ UNCHANGED <<calc, document_map, read_guards, query, client,
                   edits_left, queries_left>>

\* on_change line 256: self.document_map.write().await
on_change_write(e) ==
    /\ edit[e].pc = "wait_write"
    /\ write_guard = None
    /\ read_guards = {}
    /\ write_guard' = Some(e)
    /\ edit' = [edit EXCEPT ![e].pc = "locked"]
    /\ UNCHANGED <<calc, document_map, read_guards, query, client,
                   edits_left, queries_left>>

\* Variant: a failed parse drops the symbols of the entry it patches.
UpdatedEntry_DropSymbols(old, text, document) ==
    IF document # None THEN document
    ELSE IF old # None
    THEN Some([text |-> RopeFromStr(text), functions |-> <<>>, functions_docs |-> <<>>])
    ELSE old

\* Variant: a failed parse of a uri without entry stores the bare text.
UpdatedEntry_StoreBareText(old, text, document) ==
    IF document # None THEN document
    ELSE Some([text |-> RopeFromStr(text),
               functions |-> IF old # None THEN Unwrap(old).functions ELSE <<>>,
               functions_docs |-> IF old # None THEN Unwrap(old).functions_docs ELSE <<>>])

\* Variant: a successful parse merges its docs into those of the old entry.
UpdatedEntry_MergeDocs(old, text, document) ==
    IF document # None
    THEN IF old # None
         THEN Some([Unwrap(document) EXCEPT
                       !.functions_docs = @ @@ Unwrap(old).functions_docs])
         ELSE document
    ELSE IF old # None THEN Some([Unwrap(old) EXCEPT !.text = RopeFromStr(text)])
    ELSE old

\* Variant: a failed parse leaves the entry as it is, text included.
UpdatedEntry_KeepOldText(old, text, document) ==
    IF document # None THEN document ELSE old

\* on_change lines 257-261
UpdatedEntry(old, text, document) ==
    IF document # None THEN document
    ELSE IF old # None THEN Some([Unwrap(old) EXCEPT !.text = RopeFromStr(text)])
    ELSE old

\* Variant: the entry is not touched before the client is told.
on_change_update_Deferred(e) ==
    /\ edit[e].pc = "locked"
    /\ edit' = [edit EXCEPT ![e].pc = "report",
                             ![e].old = document_map[edit[e].uri]]
    /\ UNCHANGED <<calc, document_map, write_guard, read_guards, query, client,
                   edits_left, queries_left>>

\* Variant: the store is rebuilt around the entry of the edited uri.
on_change_update_WholeStore(e) ==
    /\ edit[e].pc = "locked"
    /\ document_map' = [u \in Uris |->
                           IF u = edit[e].uri
                           THEN UpdatedEntry(document_map[u], edit[e].text, edit[e].document)
                           ELSE None]
    /\ edit' = [edit EXCEPT ![e].pc = "report",
                             ![e].old = document_map[edit[e].uri]]
    /\ UNCHANGED <<calc, write_guard, read_guards, query, client,
                   edits_left, queries_left>>

on_change_update(e) ==
    /\ edit[e].pc = "locked"
    /\ document_map' = [document_map EXCEPT ![edit[e].uri] =
                           UpdatedEntry(@, edit[e].text, edit[e].document)]
    /\ edit' = [edit EXCEPT ![e].pc = "report",
                             ![e].old = document_map[edit[e].uri]]
    /\ UNCHANGED <<calc, write_guard, read_guards, query, client,
                   edits_left, queries_left>>

\* on_change lines 263-294: what the match on err sends to the client
Report(uri, err, version) ==
    IF err = None
    THEN [published |-> <<[uri |-> uri, diagnostics |-> <<>>, version |-> version]>>,
          logged |-> <<>>]
    ELSE LET range == span_to_positions(Unwrap(err).span) IN
         IF ~range.ok
         THEN [published |-> <<>>,
               logged |-> <<[type |-> "ERROR",
                             message |-> <<"Catch error while parsing span: ", range.err>>]>>]
         ELSE [published |->
                  <<[uri |-> uri,
                     diagnostics |-> <<[range |-> [start |-> range.start, end |-> range.end],
                                        message |-> Unwrap(err).error]>>,
                     version |-> version]>>,
               logged |-> <<>>]

\* Variant: on_change returns without dropping its write guard.
on_change_report_KeepsGuard(e) ==
    /\ edit[e].pc = "report"
    /\ client' = [client EXCEPT ![e] = Report(edit[e].uri, edit[e].err, edit[e].version)]
    /\ edit' = [edit EXCEPT ![e].pc = "done"]
    /\ UNCHANGED <<calc, document_map, write_guard, read_guards, query, edits_left,
                   queries_left>>

\* The client await of lines 263-294 completes and on_change returns; the
\* guard `documents` of line 256 is dropped here, at the end of its scope.
on_change_report(e) ==
    /\ edit[e].pc = "report"
    /\ client' = [client EXCEPT ![e] = Report(edit[e].uri, edit[e].err, edit[e].version)]
    /\ edit' = [edit EXCEPT ![e].pc = "done"]
    /\ write_guard' = IF write_guard = Some(e) THEN None ELSE write_guard
    /\ UNCHANGED <<calc, document_map, read_guards, query, edits_left, queries_left>>

-----------------------------------------------------------------------------
(* completion / hover / goto_definition requests *)

Unread == [text |-> None, functions |-> None, functions_docs |-> None]

\* The fields of the entry a handler of this kind reads, in reading order.
FirstRead(kind) == IF kind = "completion" THEN "read_text" ELSE "read_functions"

request(q, kind, uri, position) ==
    /\ query[q].pc \in {"idle", "done"}
    /\ queries_left > 0
    /\ queries_left' = queries_left - 1
    /\ query' = [query EXCEPT ![q] =
                    [pc |-> "wait_read", kind |-> kind, uri |-> uri,
                     position |-> Some(position), seen |-> None, result |-> None]]
    /\ UNCHANGED <<calc, document_map, write_guard, read_guards, edit, client, edits_left>>

\* self.document_map.read().await, then documents.get(uri)
request_read(q) ==
    /\ query[q].pc = "wait_read"
    /\ write_guard = None
    /\ read_guards' = read_guards \cup {q}
    /\ query' = [query EXCEPT
                    ![q].pc = IF document_map[query[q].uri] = None THEN "respond"
                              ELSE FirstRead(query[q].kind),
                    ![q].seen = IF document_map[query[q].uri] = None THEN None
                                ELSE Some(Unread)]
    /\ UNCHANGED <<calc, document_map, write_guard, edit, client, edits_left, queries_left>>

\* doc.text (completion)
read_text(q) ==
    /\ query[q].pc = "read_text"
    /\ query' = [query EXCEPT ![q].pc = "read_functions",
                              ![q].seen[1].text =
                                  Some(Unwrap(document_map[query[q].uri]).text)]
    /\ UNCHANGED <<calc, document_map, write_guard, read_guards, edit, client,
                   edits_left, queries_left>>

\* doc.functions
read_functions(q) ==
    /\ query[q].pc = "read_functions"
    /\ query' = [query EXCEPT
                    ![q].pc = IF query[q].kind = "goto_definition" THEN "respond"
                              ELSE "read_docs",
                    ![q].seen[1].functions =
                        Some(Unwrap(document_map[query[q].uri]).functions)]
    /\ UNCHANGED <<calc, document_map, write_guard, read_guards, edit, client,
                   edits_left, queries_left>>

\* doc.functions_docs (completion, hover)
read_docs(q) ==
    /\ query[q].pc = "read_docs"
    /\ query' = [query EXCEPT
                    ![q].pc = "respond",
                    ![q].seen[1].functions_docs =
                        Some(Unwrap(document_map[query[q].uri]).functions_docs)]
    /\ UNCHANGED <<calc, document_map, write_guard, read_guards, edit, client,
                   edits_left, queries_left>>

\* The Document a handler works on: the fields it read (a field its kind
\* never reads is left empty).
SeenDocument(seen) ==
    IF seen = None THEN None
    ELSE LET Field(o) == IF o = None THEN <<>> ELSE Unwrap(o) IN
         Some([text |-> Field(Unwrap(seen).text),
               functions |-> Field(Unwrap(seen).functions),
               functions_docs |-> Field(Unwrap(seen).functions_docs)])

\* The value a handler returns; a field holding Panic when the handler
\* panicked instead of returning.
Answer(kind, seen, position, uri, overflow_checks) ==
    IF kind = "completion" THEN [items |-> completion(SeenDocument(seen), position)]
    ELSE IF kind = "hover"
    THEN [hover |-> provide_hover(SeenDocument(seen), position, overflow_checks)]
    ELSE [location |-> goto_definition(SeenDocument(seen), position, uri, overflow_checks)]

\* Variant: the handler drops the entry it answered from.
respond_Evicting(q) ==
    /\ query[q].pc = "respond"
    /\ \E overflow_checks \in BOOLEAN :
          query' = [query EXCEPT
                      ![q].pc = "done",
                      ![q].result = Some(Answer(query[q].kind, query[q].seen,
                                                Unwrap(query[q].position), query[q].uri,
                                                overflow_checks))]
    /\ read_guards' = read_guards \ {q}
    /\ document_map' = [document_map EXCEPT ![query[q].uri] = None]
    /\ UNCHANGED <<calc, write_guard, edit, client, edits_left, queries_left>>

\* The handler returns Ok(result) and its read guard is dropped.
respond(q) ==
    /\ query[q].pc = "respond"
    /\ \E overflow_checks \in BOOLEAN :
          query' = [query EXCEPT
                      ![q].pc = "done",
                      ![q].result = Some(Answer(query[q].kind, query[q].seen,
                                                Unwrap(query[q].position), query[q].uri,
                                                overflow_checks))]
    /\ read_guards' = read_guards \ {q}
    /\ UNCHANGED <<calc, document_map, write_guard, edit, client, edits_left, queries_left>>

-----------------------------------------------------------------------------

Next ==
    \/ \E e \in Editors, u \in Uris, t \in Texts, v \in Versions : did_open(e, u, t, v)
    \/ \E e \in Editors, u \in Uris, c \in {<<>>} \cup {<<t>> : t \in Texts}, v \in Versions :
          did_change(e, u, c, v)
    \/ \E e \in Editors, u \in Uris, t \in {None} \cup {Some(x) : x \in SavedTexts} :
          did_save(e, u, t)
    \/ \E e \in Editors : on_change_parse(e)
    \/ \E e \in Editors : on_change_write(e)
    \/ \E e \in Editors : on_change_update(e)
    \/ \E e \in Editors : on_change_report(e)
    \/ \E q \in Queries, k \in QueryKinds, u \in Uris, p \in Positions : request(q, k, u, p)
    \/ \E q \in Queries : request_read(q)
    \/ \E q \in Queries : read_text(q)
    \/ \E q \in Queries : read_functions(q)
    \/ \E q \in Queries : read_docs(q)
    \/ \E q \in Queries : respond(q)

Spec == Init /\ [][Next]_vars

-----------------------------------------------------------------------------
(* The coordinate translators on their own: calc holds the argument of a    *)
(* call and, once the call has been made, what it returned                  *)

\* u32 coordinates of an editor position: 0, 1, 2^16, u32::MAX - 1, u32::MAX
EditorCoords == {Num(0), Num(1), [hi |-> 1, lo |-> 0], Pred(U32Max), U32Max}

EditorPositions == [line : EditorCoords, character : EditorCoords]

\* usize coordinates of a compiler span (non-zero): 1, 2, u32::MAX, 2^32,
\* 2^32 + 5
SpanCoords == {Num(1), Num(2), U32Max, Succ(U32Max), [hi |-> Limb, lo |-> 5]}

SpanPositions == [line : SpanCoords, col : SpanCoords]

Spans == [start : SpanPositions, end : SpanPositions]

ConvertInit ==
    /\ ServerAtRest
    /\ \/ \E p \in EditorPositions, b \in BOOLEAN :
             calc = [stage |-> "position", position |-> p, overflow_checks |-> b]
       \/ \E sp \in Spans, b \in BOOLEAN :
             calc = [stage |-> "span", span |-> sp, overflow_checks |-> b]

call_position_to_span ==
    /\ calc.stage = "position"
    /\ calc' = [stage |-> "position_to_span", position |-> calc.position,
                overflow_checks |-> calc.overflow_checks,
                result |-> position_to_span(calc.position, calc.overflow_checks)]
    /\ UNCHANGED server_vars

call_positions_to_span ==
    /\ calc.stage = "position"
    /\ calc' = [stage |-> "positions_to_span", position |-> calc.position,
                overflow_checks |-> calc.overflow_checks,
                result |-> positions_to_span(calc.position, calc.position,
                                             calc.overflow_checks)]
    /\ UNCHANGED server_vars

\* span_to_positions on the span position_to_span returned
call_span_to_positions_back ==
    /\ calc.stage = "position_to_span"
    /\ calc.result.ok
    /\ calc' = [stage |-> "round_trip", position |-> calc.position,
                overflow_checks |-> calc.overflow_checks,
                span |-> calc.result.span,
                result |-> span_to_positions(calc.result.span)]
    /\ UNCHANGED server_vars

call_span_to_positions ==
    /\ calc.stage = "span"
    /\ calc' = [stage |-> "span_to_positions", span |-> calc.span,
                overflow_checks |-> calc.overflow_checks,
                result |-> span_to_positions(calc.span)]
    /\ UNCHANGED server_vars

call_main_span_to_positions ==
    /\ calc.stage = "span"
    /\ calc' = [stage |-> "main_span_to_positions", span |-> calc.span,
                overflow_checks |-> calc.overflow_checks,
                result |-> main_span_to_positions(calc.span, calc.overflow_checks)]
    /\ UNCHANGED server_vars

ConvertNext ==
    \/ call_position_to_span
    \/ call_positions_to_span
    \/ call_span_to_positions_back
    \/ call_span_to_positions
    \/ call_main_span_to_positions

SpecConvert == ConvertInit /\ [][ConvertNext]_vars

-----------------------------------------------------------------------------
(* The call resolver on its own *)

Custom(id) == [kind |-> "Custom", id |-> id]

\* fn main, lines 1 to 3, with the calls
\*   line 1, columns 2-12:  f( { g(h(x)) } )   g: columns 4-11, h: columns 6-10
\*   line 2, columns 1-5:   g(j)               j: columns 3-4
\* the block around g(h(x)) is an expression that is not a call
FunMain ==
    [item |-> "Function", name |-> "main", span |-> MkSpan(1, 1, 3, 9),
     body |-> ExprNode(MkSpan(1, 1, 3, 9),
        <<CallNode(Custom("f"), MkSpan(1, 2, 1, 12),
             <<ExprNode(MkSpan(1, 3, 1, 11),
                  <<CallNode(Custom("g"), MkSpan(1, 4, 1, 11),
                       <<CallNode(Custom("h"), MkSpan(1, 6, 1, 10), <<>>)>>)>>)>>),
          CallNode(Custom("g"), MkSpan(2, 1, 2, 5),
             <<CallNode(CallNameOf("j"), MkSpan(2, 3, 2, 4), <<>>)>>)>>)]

\* fn g, line 5, with one call of a builtin at columns 3-9
FunG ==
    [item |-> "Function", name |-> "g", span |-> MkSpan(5, 1, 5, 9),
     body |-> ExprNode(MkSpan(5, 1, 5, 9),
        <<CallNode(CallNameOf("u"), MkSpan(5, 3, 5, 9), <<>>)>>)]

FunctionLists == {<<>>, <<FunMain>>, <<FunMain, FunG>>, <<FunG, FunMain>>}

\* the last line and column a target is drawn from
MaxTargetLine == 6

MaxTargetCol == 13

\* points, and three spans with an extent
Targets ==
    {MkSpan(l, c, l, c) : l \in 1..MaxTargetLine, c \in 1..MaxTargetCol}
        \cup {MkSpan(1, 6, 1, 10), MkSpan(1, 5, 1, 11), MkSpan(1, 12, 2, 2)}

CallsInit ==
    /\ ServerAtRest
    /\ \E fs \in FunctionLists, t \in Targets :
          calc = [stage |-> "target", functions |-> fs, token_span |-> t]

call_find_related_call ==
    /\ calc.stage = "target"
    /\ calc' = [stage |-> "find_related_call", functions |-> calc.functions,
                token_span |-> calc.token_span,
                result |-> find_related_call(calc.functions, calc.token_span)]
    /\ UNCHANGED server_vars

\* the resolver of utils.rs is applied to the same arguments
call_utils_find_related_call ==
    /\ calc.stage = "target"
    /\ calc' = [stage |-> "utils_find_related_call", functions |-> calc.functions,
                token_span |-> calc.token_span,
                result |-> utils_find_related_call(calc.functions, calc.token_span)]
    /\ UNCHANGED server_vars

CallsNext ==
    \/ call_find_related_call
    \/ call_utils_find_related_call

SpecCalls == CallsInit /\ [][CallsNext]_vars

-----------------------------------------------------------------------------
(* The request handlers on their own, on a Document as the store holds it *)

\* gjuc       fn g calling a jet, a builtin and a type cast
\* fg         fn f calling g
TextCalls == <<"g", "j", "u", "c", "\n", "f", "g">>

\* jet::a_     the jet namespace with a name begun, and a trailing blank
\* jet:::      the malformed triple colon
\* f:: :       bare colons
\* f(jet::     an open call, and the jet namespace inside it
TextPrefixes ==
    <<"j", "e", "t", ":", ":", "a", " ", "\n",
      "j", "e", "t", ":", ":", ":", "\n",
      "f", ":", ":", " ", ":", "\n",
      "f", "(", "j", "e", "t", ":", ":">>

\* /// a        fn g, documented
\* g
\* /// b        fn g once more, documented otherwise
\* g
\* fg          fn f calling g
TextTwice ==
    <<"/", "/", "/", " ", "a", "\n", "g", "\n",
      "/", "/", "/", " ", "b", "\n", "g", "\n", "f", "g">>

\* jet::a_3    a jet name with an underscore, as parse_jet reads it
TextJetName == <<"j", "e", "t", ":", ":", "a", "_", "3">>

\* no entry, the Documents of four texts, and Documents whose text a
\* failed edit replaced
StoredDocuments ==
    {None}
        \cup {parse_program(t, FALSE).document :
                  t \in {TextValid, TextUndefined, TextCalls, TextTwice}}
        \cup {Some([Unwrap(parse_program(TextCalls, FALSE).document)
                        EXCEPT !.text = RopeFromStr(TextSyntaxErr)])}
        \cup {Some([Unwrap(parse_program(TextValid, FALSE).document)
                        EXCEPT !.text = RopeFromStr(t)]) : t \in {TextPrefixes, TextJetName}}

RequestPositions ==
    [line : {Num(0), Num(1), Num(2), Num(3), Num(4), U32Max},
     character : {Num(0), Num(1), Num(2), Num(3), Num(4), Num(5), Num(6), Num(7),
                  Num(8), U32Max}]

HandlersInit ==
    /\ ServerAtRest
    /\ \E d \in StoredDocuments, pos \in RequestPositions, b \in BOOLEAN :
          calc = [stage |-> "request", documents_get |-> d, position |-> pos,
                  uri |-> "u1", overflow_checks |-> b]

\* the handler of the given kind answers the request
call_handler(kind) ==
    /\ calc.stage = "request"
    /\ calc' = [stage |-> kind, documents_get |-> calc.documents_get,
                position |-> calc.position, uri |-> calc.uri,
                overflow_checks |-> calc.overflow_checks,
                result |-> IF kind = "completion"
                           THEN completion(calc.documents_get, calc.position)
                           ELSE IF kind = "hover"
                           THEN provide_hover(calc.documents_get, calc.position,
                                              calc.overflow_checks)
                           ELSE goto_definition(calc.documents_get, calc.position,
                                                calc.uri, calc.overflow_checks)]
    /\ UNCHANGED server_vars

call_completion == call_handler("completion")

call_hover == call_handler("hover")

call_goto_definition == call_handler("goto_definition")

\* The text before the cursor can be read: the Document, the line and the
\* offset exist.
HasPrefix(documents_get, pos) ==
    /\ documents_get # None
    /\ pos.line.hi = 0 /\ pos.line.lo < Len(Unwrap(documents_get).text)
    /\ pos.character.hi = 0
    /\ pos.character.lo <= Len(Unwrap(documents_get).text[pos.line.lo + 1])

\* The text before the cursor, without its trailing whitespace.
TrimmedPrefix(documents_get, pos) ==
    TrimEnd(SubSeq(Unwrap(documents_get).text[pos.line.lo + 1], 1, pos.character.lo))

\* the provider classifies the trimmed text before the cursor, given the
\* functions of the Document with their documentation
call_process_completions ==
    /\ calc.stage = "request"
    /\ HasPrefix(calc.documents_get, calc.position)
    /\ calc' = [stage |-> "process_completions", documents_get |-> calc.documents_get,
                position |-> calc.position, uri |-> calc.uri,
                overflow_checks |-> calc.overflow_checks,
                result |-> process_completions(
                               TrimmedPrefix(calc.documents_get, calc.position),
                               PairWithDocs(Unwrap(calc.documents_get)))]
    /\ UNCHANGED server_vars

HandlersNext ==
    \/ call_completion
    \/ call_hover
    \/ call_goto_definition
    \/ call_process_completions

SpecHandlers == HandlersInit /\ [][HandlersNext]_vars

-----------------------------------------------------------------------------
(* The documentation extractor on its own *)

\* most lines above the declaration
MaxDocLines == 3

\* the lines a text is made of: doc lines (prose, prose with a trailing
\* blank, empty, list item, indented code), a blank line, a line of code, a
\* plain comment
SourceLines ==
    {<<"/", "/", "/", " ", "a">>, <<"/", "/", "/", "b", " ">>, <<"/", "/", "/">>,
     <<"/", "/", "/", "-", " ", "c">>,
     <<"/", "/", "/", " ", " ", " ", " ", " ", "x">>,
     <<>>, <<"g">>, <<"/", "/", " ", "x">>}

\* the lines, each followed by a line break, and the declaration `f`
RECURSIVE TextOfLines(_)
TextOfLines(lines) ==
    IF lines = <<>> THEN <<"f">>
    ELSE Head(lines) \o <<"\n">> \o TextOfLines(Tail(lines))

DocsInit ==
    /\ ServerAtRest
    /\ \E n \in 0..MaxDocLines :
          \E lines \in [1..n -> SourceLines] :
             \E line \in {Num(i) : i \in 0..(n + 1)} \cup {[hi |-> 1, lo |-> 0]} :
                calc = [stage |-> "declaration", lines |-> lines,
                        rope |-> RopeFromStr(TextOfLines(lines)), line |-> line]

call_get_comments_from_lines ==
    /\ calc.stage = "declaration"
    /\ calc' = [stage |-> "get_comments_from_lines", lines |-> calc.lines,
                rope |-> calc.rope, line |-> calc.line,
                result |-> get_comments_from_lines(calc.line, calc.rope)]
    /\ UNCHANGED server_vars

\* the text is parsed and its Document built
call_parse_program ==
    /\ calc.stage = "declaration"
    /\ calc' = [stage |-> "parse_program", lines |-> calc.lines,
                rope |-> calc.rope, line |-> calc.line,
                result |-> parse_program(TextOfLines(calc.lines), FALSE)]
    /\ UNCHANGED server_vars

DocsNext ==
    \/ call_get_comments_from_lines
    \/ call_parse_program

SpecDocs == DocsInit /\ [][DocsNext]_vars

-----------------------------------------------------------------------------
(* Two notifications whose on_change calls run concurrently *)

\* Backend::new, with two edit tasks at work, one notification each, and one
\* request
RaceInit ==
    /\ document_map = [u \in Uris |-> None]
    /\ write_guard = None
    /\ read_guards = {}
    /\ edit = [e \in Editors |-> IdleEdit]
    /\ query = [q \in Queries |-> IdleQuery]
    /\ client = [e \in Editors |-> NothingSent]
    /\ edits_left = [e \in Editors |-> 1]
    /\ queries_left = 1
    /\ calc = NoCalc

\* the notification of e1 is issued, and its handler entered, before that of e2
RaceNext ==
    /\ Next
    /\ (edit["e2"].pc = "idle" /\ edit'["e2"].pc # "idle") => edit["e1"].pc # "idle"

SpecRace == RaceInit /\ [][RaceNext]_vars

\* a step of the on_change of an edit task, of the handler of a request
\* Fair scheduling: a handler that can go on does go on, the store lock
\* included once it stays free; the client accepts what on_change sends it.
\* parse_program and the request's computation are synchronous code that
\* returns: weak fairness of on_change_parse(e) and of respond(q), whose
\* ENABLED is the position of the handler, written out.
Fairness ==
    /\ \A e \in Editors :
          /\ []<>(edit[e].pc # "parse")
          /\ WF_vars(on_change_write(e) \/ on_change_update(e) \/ on_change_report(e))
    /\ \A q \in Queries :
          /\ WF_vars(request_read(q) \/ read_text(q) \/ read_functions(q) \/ read_docs(q))
          /\ []<>(query[q].pc # "respond")

SpecLive == RaceInit /\ [][RaceNext]_vars /\ Fairness

-----------------------------------------------------------------------------
(* The templates on their own *)

\* most generic parameters and most arguments of a template
MaxGenerics == 2

MaxArgs == 2

\* every kind of parse::CallName
CallNames ==
    {BuiltinCallNames[i] : i \in 1..Len(BuiltinCallNames)}
        \cup {[kind |-> "Jet", id |-> "j"], [kind |-> "TypeCast", id |-> "cast"],
               Custom("f"), Custom("g")}

Templates ==
    {FunctionCompletionTemplate("fold", "fold", generics, args, return_type, <<>>) :
        generics \in UNION {[1..g -> {"f", "N"}] : g \in 0..MaxGenerics},
        args \in UNION {[1..n -> {"list", "acc"}] : n \in 0..MaxArgs},
        return_type \in {"", "A"}}

TemplatesInit ==
    /\ ServerAtRest
    /\ \E name \in CallNames, template \in Templates :
          calc = [stage |-> "template", name |-> name, template |-> template]

call_match_callname ==
    /\ calc.stage = "template"
    /\ calc' = [calc EXCEPT !.stage = "match_callname"] @@
                   [result |-> match_callname(calc.name)]
    /\ UNCHANGED server_vars

\* provide_hover builds the description of a resolved call of the name
call_hover_description ==
    /\ calc.stage = "template"
    /\ calc' = [calc EXCEPT !.stage = "hover_description"] @@
                   [result |-> HoverTemplate(Unwrap(parse_program(TextValid, FALSE).document),
                                             calc.name)]
    /\ UNCHANGED server_vars

call_get_builtin_functions ==
    /\ calc.stage = "template"
    /\ calc' = [calc EXCEPT !.stage = "get_builtin_functions"] @@
                   [result |-> get_builtin_functions]
    /\ UNCHANGED server_vars

call_get_insert_text ==
    /\ calc.stage = "template"
    /\ calc' = [calc EXCEPT !.stage = "get_insert_text"] @@
                   [result |-> get_insert_text(calc.template)]
    /\ UNCHANGED server_vars

call_get_signature ==
    /\ calc.stage = "template"
    /\ calc' = [calc EXCEPT !.stage = "get_signature"] @@
                   [result |-> get_signature(calc.template)]
    /\ UNCHANGED server_vars

TemplatesNext ==
    \/ call_match_callname
    \/ call_hover_description
    \/ call_get_builtin_functions
    \/ call_get_insert_text
    \/ call_get_signature

SpecTemplates == TemplatesInit /\ [][TemplatesNext]_vars

-----------------------------------------------------------------------------
(* Edits handled one after another: each on_change runs to its end before  *)
(* the next begins                                                          *)

\* most edits in a sequence
MaxSeq == 3

\* the params of the on_change calls, in the order they are handled
EditSequences ==
    UNION {[1..n -> [uri : Uris, text : Texts]] : n \in 0..MaxSeq}

EditsInit ==
    /\ ServerAtRest
    /\ \E edits \in EditSequences :
          calc = [stage |-> "edits", edits |-> edits, handled |-> 0,
                  documents |-> [u \in Uris |-> None]]

\* on_change lines 254-261 for the next edit of the sequence: the text is
\* parsed, then the entry of its uri is inserted or patched
call_on_change ==
    /\ calc.stage = "edits"
    /\ calc.handled < Len(calc.edits)
    /\ LET params == calc.edits[calc.handled + 1]
           r == parse_program(params.text, FALSE)
       IN calc' = [calc EXCEPT
                     !.handled = @ + 1,
                     !.documents[params.uri] = UpdatedEntry(@, params.text, r.document)]
    /\ UNCHANGED server_vars

EditsNext == call_on_change

SpecEdits == EditsInit /\ [][EditsNext]_vars

-----------------------------------------------------------------------------
(* Properties of the edit pipeline and the store *)

ParseFails(text) == ~parse_from_str(text, FALSE).ok

Names(functions) == {functions[i].name : i \in 1..Len(functions)}

Entry(uri) == Unwrap(document_map[uri])

\* The span has a coordinate u32 cannot hold.
Overflows(span) ==
    \/ ~FitsU32(span.start.line) \/ ~FitsU32(span.start.col)
    \/ ~FitsU32(span.end.line) \/ ~FitsU32(span.end.col)

\* The answer of a query that finds nothing.
EmptyAnswer(kind) ==
    IF kind = "completion" THEN [items |-> <<>>]
    ELSE IF kind = "hover" THEN [hover |-> None]
    ELSE [location |-> None]

\* document holds the text and exactly the functions the text declares, in
\* file order, each with the documentation extracted above its line of the text.
DerivedFrom(document, text) ==
    LET rope    == RopeFromStr(text)
        fnLines == {ln \in 1..Len(rope) : LineKind(LineBody(rope[ln])) = "fn"}
        LineOf(i) == document.functions[i].span.start.line.lo
    IN /\ document.text = rope
       /\ Len(document.functions) = Cardinality(fnLines)
       /\ \A i \in 1..Len(document.functions) :
             /\ LineOf(i) \in fnLines
             /\ document.functions[i] = ItemOf(LineBody(rope[LineOf(i)]), LineOf(i))
             /\ \A j \in 1..Len(document.functions) : i < j => LineOf(i) < LineOf(j)
       /\ DOMAIN document.functions_docs = Names(document.functions)
       /\ \A n \in DOMAIN document.functions_docs :
             \E i \in 1..Len(document.functions) :
                /\ document.functions[i].name = n
                /\ document.functions_docs[n] =
                      get_comments_from_lines(Num(LineOf(i) - 1), rope)

\* C1: when the text of an edit fails to parse and the uri already has a
\* Document, on_change leaves that Document with the new text and with the
\* functions and functions_docs it had before the edit.
C1_FailedEditKeepsSymbols ==
    \A e \in Editors :
        (edit[e].pc \in {"report", "done"} /\ ParseFails(edit[e].text)
           /\ edit[e].old # None) =>
            /\ document_map[edit[e].uri] # None
            /\ Entry(edit[e].uri).text = RopeFromStr(edit[e].text)
            /\ Entry(edit[e].uri).functions = Unwrap(edit[e].old).functions
            /\ Entry(edit[e].uri).functions_docs = Unwrap(edit[e].old).functions_docs

\* A hover is about to be answered from the symbols an earlier edit resolved,
\* after an edit that failed to parse replaced the text.
C1_Witness ==
    \E e \in Editors, q \in Queries :
        /\ edit[e].pc = "done" /\ ParseFails(edit[e].text) /\ edit[e].old # None
        /\ query[q].pc = "respond" /\ query[q].kind = "hover"
        /\ query[q].uri = edit[e].uri
        /\ Entry(edit[e].uri).text = RopeFromStr(edit[e].text)
        /\ query[q].seen # None
        /\ Unwrap(query[q].seen).functions = Some(Unwrap(edit[e].old).functions)
        /\ provide_hover(SeenDocument(query[q].seen), Unwrap(query[q].position), FALSE) # None

\* C2: when the text of an edit fails to parse and the uri has no Document,
\* none is stored; a query that finds no Document answers none (hover,
\* goto-definition) or the empty list (completion); and a Document is only
\* ever stored from a text that parses.
C2_FailedFirstEditStoresNothing ==
    /\ \A e \in Editors :
          (edit[e].pc = "report" /\ ParseFails(edit[e].text) /\ edit[e].old = None) =>
              document_map[edit[e].uri] = None
    /\ \A q \in Queries :
          /\ (query[q].pc = "respond" /\ document_map[query[q].uri] = None) =>
                query[q].seen = None
          /\ (query[q].pc = "done" /\ query[q].seen = None) =>
                query[q].result = Some(EmptyAnswer(query[q].kind))
    /\ \A u \in Uris :
          document_map[u] # None =>
              \E t \in Texts : ~ParseFails(t) /\ DerivedFrom([Entry(u) EXCEPT !.text = RopeFromStr(t)], t)

\* A query finds no Document after the only edit of its uri failed to parse.
C2_Witness ==
    \E e \in Editors, q \in Queries :
        /\ edit[e].pc = "done" /\ ParseFails(edit[e].text) /\ edit[e].old = None
        /\ query[q].pc = "done" /\ query[q].uri = edit[e].uri
        /\ query[q].seen = None
        /\ query[q].result = Some(EmptyAnswer(query[q].kind))
        /\ document_map[edit[e].uri] = None
        /\ edits_left[e] = MaxEdits - 1
        /\ queries_left = MaxQueries - 1

\* C3: when the text of an edit parses, on_change replaces the entry in full:
\* text, functions and functions_docs are those of the new text alone.
C3_ParsedEditReplacesEntry ==
    \A e \in Editors :
        (edit[e].pc = "report" /\ ~ParseFails(edit[e].text)) =>
            /\ document_map[edit[e].uri] # None
            /\ DerivedFrom(Entry(edit[e].uri), edit[e].text)

\* An edit that parses has replaced an entry that carried stale symbols: the
\* old entry's text did not parse and it declared a function the new text
\* does not.
C3_Witness ==
    \E e \in Editors :
        /\ edit[e].pc = "report" /\ ~ParseFails(edit[e].text)
        /\ edit[e].old # None
        /\ \E t \in Texts : ParseFails(t) /\ Unwrap(edit[e].old).text = RopeFromStr(t)
        /\ Names(Unwrap(edit[e].old).functions) \ Names(Entry(edit[e].uri).functions) # {}
        /\ DOMAIN Unwrap(edit[e].old).functions_docs
              \ DOMAIN Entry(edit[e].uri).functions_docs # {}

\* C4: when the text parses and analysis fails, on_change stores the Document
\* built from the parse, and the diagnostic it publishes is the analysis error.
C4_AnalysisErrorStillStores ==
    \A e \in Editors :
        LET program == parse_from_str(edit[e].text, FALSE) IN
        (edit[e].pc \in {"report", "done"} /\ program.ok /\ analyze(program, FALSE) # None) =>
            /\ edit[e].pc = "report" =>
                  document_map[edit[e].uri] = Some(create_document(program, edit[e].text))
            /\ (edit[e].pc = "done" /\ ~Overflows(Unwrap(edit[e].err).span)) =>
                  /\ Len(client[e].published) = 1
                  /\ Len(client[e].published[1].diagnostics) = 1
                  /\ client[e].published[1].diagnostics[1].message =
                        Unwrap(analyze(program, FALSE)).error

\* on_change has stored the Document of a text that fails analysis and has
\* published the analysis error.
C4_Witness ==
    \E e \in Editors :
        /\ edit[e].pc = "done" /\ edit[e].text = TextUndefined
        /\ document_map[edit[e].uri] # None
        /\ Entry(edit[e].uri).text = RopeFromStr(TextUndefined)
        /\ Names(Entry(edit[e].uri).functions) = {"f"}
        /\ Len(client[e].published) = 1
        /\ Len(client[e].published[1].diagnostics) = 1

\* C5: an on_change publishes at most once, for its uri: the empty list when
\* parsing and analysis succeed; otherwise one diagnostic with the error's
\* message and a range whose coordinates are each one less than the span's.
C5_DiagnosticsPublishedOnce ==
    \A e \in Editors :
        /\ Len(client[e].published) <= 1
        /\ \A i \in 1..Len(client[e].published) : client[e].published[i].uri = edit[e].uri
        /\ edit[e].pc = "done" =>
              LET program == parse_from_str(edit[e].text, FALSE) IN
              IF program.ok /\ analyze(program, FALSE) = None
              THEN /\ Len(client[e].published) = 1
                   /\ client[e].published[1].diagnostics = <<>>
                   /\ client[e].published[1].version = edit[e].version
              ELSE \/ Overflows(Unwrap(edit[e].err).span)
                   \/ LET span == Unwrap(edit[e].err).span
                          sent == client[e].published
                      IN /\ Len(sent) = 1
                         /\ Len(sent[1].diagnostics) = 1
                         /\ sent[1].diagnostics[1].message = Unwrap(edit[e].err).error
                         /\ Succ(sent[1].diagnostics[1].range.start.line) = span.start.line
                         /\ Succ(sent[1].diagnostics[1].range.start.character) = span.start.col
                         /\ Succ(sent[1].diagnostics[1].range.end.line) = span.end.line
                         /\ Succ(sent[1].diagnostics[1].range.end.character) = span.end.col
                         /\ sent[1].version = edit[e].version

\* on_change has published the one diagnostic of a syntax error.
C5_Witness ==
    \E e \in Editors :
        /\ edit[e].pc = "done" /\ ParseFails(edit[e].text)
        /\ Len(client[e].published) = 1
        /\ Len(client[e].published[1].diagnostics) = 1
        /\ client[e].published[1].diagnostics[1].range.start = [line |-> Num(0), character |-> Num(0)]

\* C6: when the error span does not translate, on_change logs the failure,
\* publishes nothing and returns, and it has updated the store before.
C6_UntranslatableSpanIsLogged ==
    \A e \in Editors :
        (edit[e].pc \in {"report", "done"} /\ edit[e].err # None
           /\ Overflows(Unwrap(edit[e].err).span)) =>
            /\ edit[e].pc = "report" =>
                  /\ client[e] = NothingSent
                  /\ edit[e].document # None => document_map[edit[e].uri] = edit[e].document
                  /\ (edit[e].document = None /\ edit[e].old # None) =>
                        /\ document_map[edit[e].uri] # None
                        /\ Entry(edit[e].uri).text = RopeFromStr(edit[e].text)
            /\ edit[e].pc = "done" =>
                  /\ client[e].published = <<>>
                  /\ Len(client[e].logged) = 1
                  /\ client[e].logged[1].type = "ERROR"

\* on_change has returned after logging a span it could not translate, with
\* the text of the edit in the store.
C6_Witness ==
    \E e \in Editors :
        /\ edit[e].pc = "done" /\ edit[e].err # None
        /\ Overflows(Unwrap(edit[e].err).span)
        /\ Len(client[e].logged) = 1 /\ client[e].published = <<>>
        /\ document_map[edit[e].uri] # None
        /\ Entry(edit[e].uri).text = RopeFromStr(edit[e].text)

\* C7: in every stored Document the keys of functions_docs are the names of
\* the functions, and a step that changes either of the two stores a whole
\* Document that one on_change built.
C7_SymbolsWrittenTogether ==
    /\ [](\A u \in Uris :
            document_map[u] # None =>
                DOMAIN Entry(u).functions_docs = Names(Entry(u).functions))
    /\ [][\A u \in Uris :
            (/\ document_map'[u] # None
             /\ \/ document_map[u] = None
                \/ Unwrap(document_map'[u]).functions # Entry(u).functions
                \/ Unwrap(document_map'[u]).functions_docs # Entry(u).functions_docs)
            => \E e \in Editors :
                  /\ edit[e].pc = "locked" /\ edit[e].uri = u
                  /\ edit[e].document = document_map'[u]
                  /\ \E far \in BOOLEAN :
                        edit[e].document = parse_program(edit[e].text, far).document]_vars

\* A stored Document has a function without doc comment and one with.
C7_Witness ==
    \E u \in Uris :
        /\ document_map[u] # None
        /\ \E n, m \in DOMAIN Entry(u).functions_docs :
              Entry(u).functions_docs[n] = <<>> /\ Entry(u).functions_docs[m] # <<>>

\* C8: what a request has read of the Document under its read guard is what
\* the store holds for its uri: the entry as a whole, as it is between two
\* updates.
C8_ReadersSeeWholeDocument ==
    \A q \in Queries :
        query[q].pc \in {"read_text", "read_functions", "read_docs", "respond"} =>
            /\ q \in read_guards
            /\ query[q].seen = None <=> document_map[query[q].uri] = None
            /\ query[q].seen # None =>
                  LET seen == Unwrap(query[q].seen)
                      doc  == Entry(query[q].uri)
                  IN /\ seen.text # None => seen.text = Some(doc.text)
                     /\ seen.functions # None => seen.functions = Some(doc.functions)
                     /\ seen.functions_docs # None =>
                           seen.functions_docs = Some(doc.functions_docs)

\* A completion request has read text, functions and docs while an on_change
\* with another text for the same uri waits for the write guard.
C8_Witness ==
    \E q \in Queries, e \in Editors :
        /\ query[q].pc = "respond" /\ query[q].kind = "completion"
        /\ query[q].seen # None
        /\ Unwrap(query[q].seen).functions_docs # None
        /\ edit[e].pc = "wait_write" /\ edit[e].uri = query[q].uri
        /\ edit[e].document # None
        /\ Unwrap(edit[e].document).text # Entry(query[q].uri).text

\* C9: on_change holds no write guard while it parses; the task that holds
\* the write guard has its parse result, so a request that waits for the
\* store never waits for a parse.
C9_ParsedBeforeWriteGuard ==
    \A e \in Editors :
        /\ edit[e].pc \in {"parse", "wait_write"} => write_guard # Some(e)
        /\ write_guard = Some(e) =>
              /\ edit[e].pc \in {"locked", "report"}
              /\ \E far \in BOOLEAN :
                    LET r == parse_program(edit[e].text, far) IN
                    edit[e].err = r.err /\ edit[e].document = r.document

\* A request holds a read guard while an edit is being parsed.
C9_Witness ==
    \E e \in Editors, q \in Queries :
        /\ edit[e].pc = "parse"
        /\ q \in read_guards
        /\ query[q].pc = "read_functions"

\* C10: the write guard is released before on_change awaits the client.
C10_GuardReleasedBeforeClient ==
    \A e \in Editors : edit[e].pc = "report" => write_guard # Some(e)

\* C11: no step of a completion, hover or goto_definition handler changes the
\* document store or touches the write guard: the handlers take read guards
\* only.
C11_QueriesLeaveStoreUnchanged ==
    [][query' # query =>
          /\ document_map' = document_map
          /\ write_guard' = write_guard
          /\ \A q \in Queries : write_guard' # Some(q)]_vars

\* Each kind of request has returned an answer drawn from a stored Document,
\* which is still the entry of its uri.
C11_Witness ==
    \E q \in Queries :
        /\ query[q].pc = "done"
        /\ query[q].seen # None
        /\ query[q].result # Some(EmptyAnswer(query[q].kind))
        /\ query[q].kind = "goto_definition"
        /\ document_map[query[q].uri] # None
        /\ Some(Entry(query[q].uri).functions) = Unwrap(query[q].seen).functions

\* C12: for an editor position p with line and character below u32::MAX,
\* position_to_span(p) succeeds and span_to_positions of its span succeeds
\* and returns (p, p).
C12_RoundTrip ==
    LET below == /\ calc.position.line # U32Max
                 /\ calc.position.character # U32Max
    IN /\ (calc.stage = "position_to_span" /\ below) => calc.result.ok
       /\ (calc.stage = "round_trip" /\ below) =>
              /\ calc.result.ok
              /\ calc.result.start = calc.position
              /\ calc.result.end = calc.position

\* The round trip has been made on the position (u32::MAX - 1, 2^16).
C12_Witness ==
    /\ calc.stage = "round_trip"
    /\ calc.position = [line |-> Pred(U32Max), character |-> [hi |-> 1, lo |-> 0]]
    /\ calc.result.ok
    /\ calc.span.start.line = U32Max

\* C13: each span-to-range conversion (span_to_positions of utils.rs and of
\* main.rs) returns every coordinate less 1 when all four fit u32, and
\* returns no range (it fails) when one does not fit.
C13_ConversionsNeverTruncate ==
    /\ calc.stage = "span_to_positions" =>
          IF Overflows(calc.span) THEN ~calc.result.ok
          ELSE /\ calc.result.ok
               /\ Succ(calc.result.start.line) = calc.span.start.line
               /\ Succ(calc.result.start.character) = calc.span.start.col
               /\ Succ(calc.result.end.line) = calc.span.end.line
               /\ Succ(calc.result.end.character) = calc.span.end.col
    /\ calc.stage = "main_span_to_positions" =>
          IF Overflows(calc.span) THEN calc.result.panicked
          ELSE /\ ~calc.result.panicked
               /\ Succ(calc.result.start.line) = calc.span.start.line
               /\ Succ(calc.result.start.character) = calc.span.start.col
               /\ Succ(calc.result.end.line) = calc.span.end.line
               /\ Succ(calc.result.end.character) = calc.span.end.col

\* C14: position_to_span(p) returns the zero-width span at (p.line + 1,
\* p.character + 1); when p.line or p.character is u32::MAX it returns, as
\* positions_to_span does, an invalid-parameters error.
C14_PointSpanOrInvalidParams ==
    calc.stage \in {"position_to_span", "positions_to_span"} =>
        IF AddOverflows(calc.position.line) \/ AddOverflows(calc.position.character)
        THEN ~calc.result.ok /\ ~calc.result.panicked
        ELSE /\ calc.result.ok
             /\ calc.result.span.start = calc.result.span.end
             /\ calc.result.span.start.line = Succ(calc.position.line)
             /\ calc.result.span.start.col = Succ(calc.position.character)

\* The functions of the list whose span contains the target.
Enclosing(functions, token_span) ==
    {i \in 1..Len(functions) : span_contains(functions[i].span, token_span)}

\* The calls of the function find_related_call selects (the first enclosing
\* one) whose span contains the target.
EnclosingCalls(functions, token_span) ==
    LET inside == Enclosing(functions, token_span)
        func   == functions[CHOOSE i \in inside : \A k \in inside : i <= k]
    IN {c \in {CallsOf(func.body)[k] : k \in 1..Len(CallsOf(func.body))} :
            span_contains(c.span, token_span)}

\* C15: the call find_related_call returns is the innermost enclosing call:
\* no other call of the selected function that contains the target lies
\* inside it; in f(g(h(x))) with the target inside h's argument it is h.
C15_InnermostCall ==
    calc.stage = "find_related_call" =>
        /\ calc.result # None =>
              \A c \in EnclosingCalls(calc.functions, calc.token_span) :
                  span_contains(Unwrap(calc.result).span, c.span)
                      => c = Unwrap(calc.result)
        /\ (calc.functions # <<>> /\ calc.functions[1] = FunMain
              /\ calc.token_span = MkSpan(1, 8, 1, 8)) =>
              /\ calc.result # None
              /\ Unwrap(calc.result).name = Custom("h")

\* The target inside h's argument, enclosed by the calls of f, g and h, has
\* been resolved.
C15_Witness ==
    /\ calc.stage = "find_related_call"
    /\ calc.functions = <<FunMain, FunG>>
    /\ calc.token_span = MkSpan(1, 8, 1, 8)
    /\ Cardinality(EnclosingCalls(calc.functions, calc.token_span)) = 3
    /\ calc.result # None

\* C16: find_related_call returns none when no function's span contains the
\* target; a call it returns is a call of a function whose span contains the
\* target, and the call's span contains the target.
C16_CallEnclosesTarget ==
    calc.stage = "find_related_call" =>
        /\ Enclosing(calc.functions, calc.token_span) = {} => calc.result = None
        /\ calc.result # None =>
              /\ span_contains(Unwrap(calc.result).span, calc.token_span)
              /\ \E i \in Enclosing(calc.functions, calc.token_span) :
                    \E k \in 1..Len(CallsOf(calc.functions[i].body)) :
                        CallsOf(calc.functions[i].body)[k] = Unwrap(calc.result)

\* A call has been returned for a target that other calls of the function
\* do not contain, and none for a target outside every function.
C16_Witness ==
    /\ calc.stage = "find_related_call"
    /\ calc.functions = <<FunG, FunMain>>
    /\ calc.token_span = MkSpan(2, 3, 2, 3)
    /\ calc.result # None
    /\ Unwrap(calc.result).name.kind = "Jet"

\* The call at the request's position, when the position converts to a span.
CallAt(documents_get, pos) ==
    IF documents_get = None \/ AddOverflows(pos.line) \/ AddOverflows(pos.character)
    THEN None
    ELSE find_related_call(Unwrap(documents_get).functions,
                           [start |-> [line |-> Succ(pos.line), col |-> Succ(pos.character)],
                            end |-> [line |-> Succ(pos.line), col |-> Succ(pos.character)]])

\* C17: goto_definition returns a location only if the call at the cursor is
\* a call of a user-defined function that the stored functions declare, and
\* then the location has the request's uri and the declaration's span less 1
\* in each coordinate; it returns none for an unknown document, a position
\* without enclosing call, a jet, a builtin, a type cast and an undeclared
\* name.
C17_GotoDefinitionResolvesDeclared ==
    calc.stage = "goto_definition" =>
        LET call == CallAt(calc.documents_get, calc.position)
            declared ==
                IF call = None \/ Unwrap(call).name.kind # "Custom" THEN {}
                ELSE {i \in 1..Len(Unwrap(calc.documents_get).functions) :
                        Unwrap(calc.documents_get).functions[i].name = Unwrap(call).name.id}
        IN IF declared = {} THEN calc.result = None
           ELSE LET decl == Unwrap(calc.documents_get).functions[
                               CHOOSE i \in declared : \A k \in declared : i <= k]
                IN /\ calc.result # None
                   /\ Unwrap(calc.result).uri = calc.uri
                   /\ Succ(Unwrap(calc.result).range.start.line) = decl.span.start.line
                   /\ Succ(Unwrap(calc.result).range.start.character) = decl.span.start.col
                   /\ Succ(Unwrap(calc.result).range.end.line) = decl.span.end.line
                   /\ Succ(Unwrap(calc.result).range.end.character) = decl.span.end.col

\* C18: completion, hover and goto_definition always return a success
\* response: the empty list or none for a missing document, a missing
\* enclosing function or call, and a position that does not convert.
C18_HandlersAlwaysAnswer ==
    /\ calc.stage = "completion" =>
          (calc.documents_get = None => calc.result = <<>>)
    /\ calc.stage \in {"hover", "goto_definition"} =>
          /\ calc.result # Panic
          /\ CallAt(calc.documents_get, calc.position) = None => calc.result = None

\* Line i (0-based) of the text exists and begins with the doc marker.
IsDocLine(rope, i) == i < Len(rope) /\ StartsWith(rope[i + 1], DocMarker)

\* The first line of the maximal run of doc lines that ends at line - 1
\* (line itself when there is no such run).
RunStart(rope, line) ==
    CHOOSE st \in 0..line :
        /\ \A i \in st..(line - 1) : IsDocLine(rope, i)
        /\ \A t \in 0..(st - 1) : \E i \in t..(line - 1) : ~IsDocLine(rope, i)

\* The lines of that run, in source order, without marker and trailing blanks.
DocRun(rope, line) ==
    IF line.hi > 0 THEN <<>>
    ELSE [k \in 1..(line.lo - RunStart(rope, line.lo)) |->
            LET text == rope[RunStart(rope, line.lo) + k]
            IN TrimEnd(SubSeq(text, 4, Len(text)))]

Prose(doc_line) == ~IsMdBlock(Trim(doc_line))

\* C19: get_comments_from_lines builds its result from exactly the maximal
\* run of lines beginning with the doc marker that ends at line - 1; the
\* result is empty when line is 0 or the line above is not a doc line.
C19_DocsFromAdjacentRun ==
    calc.stage = "get_comments_from_lines" =>
        /\ calc.result = Reflow(DocRun(calc.rope, calc.line), <<>>, FALSE)
        /\ (calc.line = Num(0) \/ calc.line.hi > 0
               \/ ~IsDocLine(calc.rope, calc.line.lo - 1)) => calc.result = <<>>

\* The documentation of a declaration with a doc line, a blank line and a
\* doc line above it is the last doc line alone.
C19_Witness ==
    /\ calc.stage = "get_comments_from_lines"
    /\ calc.lines = <<<<"/", "/", "/", " ", "a">>, <<>>, <<"/", "/", "/", "b", " ">>>>
    /\ calc.line = Num(3)
    /\ calc.result = <<"b">>

\* C20: where two consecutive collected lines are both prose, the result up
\* to the second is the result up to the first, one space, and the second
\* line trimmed.
C20_ProseJoinedBySpace ==
    calc.stage = "get_comments_from_lines" =>
        LET run == DocRun(calc.rope, calc.line)
            UpTo(k) == Reflow(SubSeq(run, 1, k), <<>>, FALSE)
        IN \A i \in 1..(Len(run) - 1) :
              (Prose(run[i]) /\ Prose(run[i + 1])) =>
                  /\ EndsWith(UpTo(i), Trim(run[i]))
                  /\ UpTo(i + 1) = UpTo(i) \o <<" ">> \o Trim(run[i + 1])
                  /\ StartsWith(calc.result, UpTo(i + 1))

\* Two prose doc lines have been joined into `a b`.
C20_Witness ==
    /\ calc.stage = "get_comments_from_lines"
    /\ calc.lines = <<<<"/", "/", "/", " ", "a">>, <<"/", "/", "/", "b", " ">>>>
    /\ calc.line = Num(2)
    /\ calc.result = <<"a", " ", "b">>

\* The result of the reflow step after the first k lines of the run.
ReflowUpTo(run, k) == Reflow(SubSeq(run, 1, k), <<>>, FALSE)

\* C21 as stated: every collected line but the first that is a block line, or
\* that follows a block line, is preceded by a newline in the result.
C21_BlockLinesStartNewLine ==
    calc.stage = "get_comments_from_lines" =>
        LET run == DocRun(calc.rope, calc.line)
        IN \A i \in 2..Len(run) :
              (~Prose(run[i]) \/ ~Prose(run[i - 1])) =>
                  ReflowUpTo(run, i) = ReflowUpTo(run, i - 1) \o <<"\n">> \o Trim(run[i])

\* C21 amended: such a line is preceded by a newline when the result so far
\* is not empty; a line reached with an empty result (the first line, or a
\* line after empty lines only) is emitted with no separator.
C21_BlockLinesStartNewLineOnceNonEmpty ==
    calc.stage = "get_comments_from_lines" =>
        LET run == DocRun(calc.rope, calc.line)
        IN /\ \A i \in 2..Len(run) :
                 (~Prose(run[i]) \/ ~Prose(run[i - 1])) =>
                     ReflowUpTo(run, i) =
                         IF ReflowUpTo(run, i - 1) = <<>> THEN Trim(run[i])
                         ELSE ReflowUpTo(run, i - 1) \o <<"\n">> \o Trim(run[i])
           /\ calc.result = ReflowUpTo(run, Len(run))

\* A list item after a prose line has been put on a line of its own, and a
\* prose line after an empty first line has been emitted without separator.
C21_Witness ==
    /\ calc.stage = "get_comments_from_lines"
    /\ calc.lines = <<<<"/", "/", "/">>, <<"/", "/", "/", " ", "a">>,
                      <<"/", "/", "/", "-", " ", "c">>>>
    /\ calc.line = Num(3)
    /\ calc.result = <<"a", "\n", "-", " ", "c">>

\* The doc line, before it is trimmed, begins with the four blanks of an
\* indented code block and is not blank altogether.
IndentedCode(doc_line) ==
    StartsWith(doc_line, <<" ", " ", " ", " ">>) /\ Trim(doc_line) # <<>>

\* C22: a doc line indented as a code block is a block line; one that follows
\* a prose line is put on a new line of the result, not joined by a space.
C22_IndentedCodeStartsNewLine ==
    calc.stage = "get_comments_from_lines" =>
        LET run == DocRun(calc.rope, calc.line)
        IN \A i \in 2..Len(run) :
              (Prose(run[i - 1]) /\ ~IndentedCode(run[i - 1]) /\ IndentedCode(run[i])) =>
                  /\ ~Prose(run[i])
                  /\ ReflowUpTo(run, i) =
                         ReflowUpTo(run, i - 1) \o <<"\n">> \o Trim(run[i])

\* The final segment of a prefix: its longest ending made of alphanumeric
\* characters and colons only.
FinalSegment(s) ==
    LET k == CHOOSE k \in 0..Len(s) :
                 /\ \A i \in (Len(s) - k + 1)..Len(s) : s[i] \in AlphaNumeric \cup {":"}
                 /\ (k < Len(s) => s[Len(s) - k] \notin AlphaNumeric \cup {":"})
    IN SubSeq(s, Len(s) - k + 1, Len(s))

\* A classifier has answered for a text before the cursor that can be read.
Classified ==
    /\ calc.stage \in {"completion", "process_completions"}
    /\ HasPrefix(calc.documents_get, calc.position)

\* The final segment of the trimmed text before the cursor.
Segment == FinalSegment(TrimmedPrefix(calc.documents_get, calc.position))

\* The candidates the classifier returned, none when it returned None.
Returned ==
    IF calc.stage = "completion" THEN calc.result
    ELSE IF calc.result = None THEN <<>> ELSE Unwrap(calc.result)

\* The classifier answered with no completions: the handler an empty list,
\* the provider None.
ReturnedNone ==
    IF calc.stage = "completion" THEN calc.result = <<>> ELSE calc.result = None

C24_BareColonGivesNone ==
    (Classified /\ EndsWith(TrimmedPrefix(calc.documents_get, calc.position), <<":">>)
                /\ ~StartsWith(Segment, JetPrefix)) =>
        ReturnedNone

\* C25: for a final segment that begins with the jet namespace prefix and a
\* third colon the jet completions are not returned.
C25_TripleColonGivesNoJets ==
    (Classified /\ StartsWith(Segment, JetPrefix \o <<":">>)) => Returned # Jets

C27_NoPrefixGivesEmptyList ==
    (calc.stage = "completion" /\ ~HasPrefix(calc.documents_get, calc.position)) =>
        calc.result = <<>>

\* The handler has answered with the empty list for an offset one past the
\* end of a line after which a General prefix would have been read.
C27_Witness ==
    /\ calc.stage = "completion"
    /\ calc.documents_get # None
    /\ Unwrap(calc.documents_get).text = RopeFromStr(TextValid)
    /\ calc.position = [line |-> Num(2), character |-> Num(3)]
    /\ calc.result = <<>>

\* The 1-based numbers of the lines of the rope that declare the function
\* name, in file order.
DeclarationsOf(rope, name) ==
    {ln \in 1..Len(rope) :
        LineKind(LineBody(rope[ln])) = "fn" /\ LineBody(rope[ln])[1] = name}

\* C28: when a program declares a name more than once, functions keeps every
\* declaration, and the functions_docs entry of the name is the
\* documentation above the last declaration in file order.
C28_LaterDeclarationWins ==
    (calc.stage = "parse_program" /\ calc.result.document # None) =>
        LET document == Unwrap(calc.result.document)
        IN \A name \in FnNames :
              LET lns == DeclarationsOf(calc.rope, name)
              IN /\ Cardinality({i \in 1..Len(document.functions) :
                                    document.functions[i].name = name})
                        = Cardinality(lns)
                 /\ lns # {} =>
                       /\ name \in DOMAIN document.functions_docs
                       /\ LET last == CHOOSE l \in lns : \A m \in lns : m <= l
                          IN document.functions_docs[name] =
                                Reflow(DocRun(calc.rope, Num(last - 1)), <<>>, FALSE)

\* g is declared twice, with documentation above the first declaration only:
\* both declarations are kept and the entry of g is empty.
C28_Witness ==
    /\ calc.stage = "parse_program"
    /\ calc.lines = <<<<"/", "/", "/", " ", "a">>, <<"g">>, <<"g">>>>
    /\ calc.result.document # None
    /\ Len(Unwrap(calc.result.document).functions) = 3
    /\ Unwrap(calc.result.document).functions_docs["g"] = <<>>

\* C29: hover returns a result exactly when a call is resolved at the cursor
\* and a template exists for it (a known jet, a builtin, or a declared user
\* function with a functions_docs entry); the range of the result is the
\* span of the call less 1 in each coordinate; otherwise it returns none.
C29_HoverExactlyWhenTemplate ==
    calc.stage = "hover" =>
        LET call == CallAt(calc.documents_get, calc.position)
            name == Unwrap(call).name
            document == Unwrap(calc.documents_get)
            template_exists ==
                /\ call # None
                /\ \/ name.kind = "Jet" /\ name.id \in KnownJets
                   \/ name.kind = "Custom"
                        /\ name.id \in Names(document.functions)
                        /\ name.id \in DOMAIN document.functions_docs
                   \/ name.kind \notin {"Jet", "Custom"} /\ match_callname(name) # None
        IN IF template_exists
           THEN /\ calc.result \notin {None, Panic}
                /\ Succ(Unwrap(calc.result).range.start.line) = Unwrap(call).span.start.line
                /\ Succ(Unwrap(calc.result).range.start.character) = Unwrap(call).span.start.col
                /\ Succ(Unwrap(calc.result).range.end.line) = Unwrap(call).span.end.line
                /\ Succ(Unwrap(calc.result).range.end.character) = Unwrap(call).span.end.col
           ELSE calc.result = None

EditsOf(uri) ==
    {i \in 1..calc.handled : calc.edits[i].uri = uri}

ParsedEditsOf(uri) ==
    {i \in EditsOf(uri) : ~ParseFails(calc.edits[i].text)}

\* C31: after edits handled one after another, a uri has a Document iff one
\* of its edits parsed; the Document's text is that of the last edit of the
\* uri, its functions and functions_docs those of the last edit of the uri
\* that parsed.
C31_StoreReflectsEditHistory ==
    calc.stage = "edits" =>
        \A u \in Uris :
            /\ calc.documents[u] # None <=> ParsedEditsOf(u) # {}
            /\ calc.documents[u] # None =>
                  LET last == CHOOSE i \in EditsOf(u) : \A k \in EditsOf(u) : k <= i
                      parsed == CHOOSE i \in ParsedEditsOf(u) :
                                    \A k \in ParsedEditsOf(u) : k <= i
                      document == Unwrap(calc.documents[u])
                  IN /\ document.text = RopeFromStr(calc.edits[last].text)
                     /\ DerivedFrom([document EXCEPT
                                        !.text = RopeFromStr(calc.edits[parsed].text)],
                                    calc.edits[parsed].text)
                     /\ document.functions_docs =
                           create_document(parse_from_str(calc.edits[parsed].text, FALSE),
                                           calc.edits[parsed].text).functions_docs

\* Three edits of one uri were handled: one that parsed, one that parsed with
\* other functions, one that did not parse.
C31_Witness ==
    /\ calc.stage = "edits" /\ calc.handled = 3
    /\ calc.edits = <<[uri |-> "u1", text |-> TextValid],
                      [uri |-> "u1", text |-> TextUndefined],
                      [uri |-> "u1", text |-> TextSyntaxErr]>>
    /\ calc.documents["u1"] # None
    /\ Unwrap(calc.documents["u1"]).text = RopeFromStr(TextSyntaxErr)
    /\ Names(Unwrap(calc.documents["u1"]).functions) = {"f"}

\* C32: when the on_change calls of two edits of one uri, issued e1 then e2,
\* have both returned, the entry of the uri has the text of e2 and, if the
\* text of e2 parsed, is the Document of e2.
C32_NewerEditWins ==
    (/\ edit["e1"].pc = "done" /\ edit["e2"].pc = "done"
     /\ edit["e1"].uri = edit["e2"].uri
     /\ document_map[edit["e2"].uri] # None) =>
        /\ Entry(edit["e2"].uri).text = RopeFromStr(edit["e2"].text)
        /\ edit["e2"].document # None => document_map[edit["e2"].uri] = edit["e2"].document

\* C33: under fair scheduling every on_change that was entered returns and
\* has dropped its write guard, and every request that arrived is answered
\* and has dropped its read guard.
C33_HandlersComplete ==
    /\ \A e \in Editors :
          (edit[e].pc \in {"parse", "wait_write", "locked", "report"})
              ~> (edit[e].pc = "done" /\ write_guard # Some(e))
    /\ \A q \in Queries :
          (query[q].pc \in {"wait_read", "read_text", "read_functions", "read_docs",
                            "respond"})
              ~> (query[q].pc = "done" /\ q \notin read_guards)

\* One on_change holds the write guard while the other on_change and a
\* request wait for the store.
C33_Witness ==
    /\ write_guard = Some("e1")
    /\ edit["e2"].pc = "wait_write"
    /\ query["q1"].pc = "wait_read"

\* C34: a hover on a call to a user-defined function shows the documentation
\* of the declaration whose signature it shows: the doc comment above the
\* declaration that document.functions.iter().find(..) selects, in a Document
\* as create_document built it from its text.
C34_HoverDocsOfShownDeclaration ==
    (/\ calc.stage = "hover"
     /\ calc.result \notin {None, Panic}
     /\ \E t \in {TextValid, TextUndefined, TextCalls, TextTwice} :
           calc.documents_get = parse_program(t, FALSE).document) =>
        LET document == Unwrap(calc.documents_get)
            name == Unwrap(CallAt(calc.documents_get, calc.position)).name
        IN name.kind = "Custom" =>
              LET function == Unwrap(FindFunction(document.functions, name.id))
              IN Unwrap(calc.result).contents.description =
                    get_comments_from_lines(StartLineOf(function), document.text)

\* C35: the entry of a uri changes only in the store update of an on_change
\* for that uri, which holds the write guard: every step of an on_change for
\* another uri, whether its text parsed or not, leaves the entry as it is.
C35_OtherUrisUnchanged ==
    [][\A u \in Uris :
          document_map'[u] # document_map[u] =>
             \E e \in Editors : /\ edit[e].pc = "locked"
                                 /\ edit'[e].pc = "report"
                                 /\ edit[e].uri = u
                                 /\ write_guard = Some(e)]_vars

\* An on_change for u2 whose text did not parse has updated the store while
\* u1 holds a Document.
C35_Witness ==
    /\ \E e \in Editors : /\ edit[e].pc = "report"
                           /\ edit[e].uri = "u2"
                           /\ edit[e].document = None
    /\ document_map["u1"] # None

\* C36: a did_change whose content_changes list is empty is handled without
\* failure: no handler ends in a panic.  (The store and the client are not
\* touched by such a notification in any case.)
C36_EmptyChangeHandled ==
    \A e \in Editors :
        /\ edit[e].pc # "panicked"
        /\ (edit[e].pc = "returned" => client[e] = NothingSent)

\* C37: when the text before the cursor ends with a jet reference, that is
\* "jet::" followed by letters, digits and underscores only, and not itself
\* the tail of a longer word, completion returns the jet completions.
C37_PartialJetNameGivesJets ==
    (calc.stage = "completion" /\ HasPrefix(calc.documents_get, calc.position)) =>
        LET prefix == SubSeq(Unwrap(calc.documents_get).text[calc.position.line.lo + 1],
                             1, calc.position.character.lo)
            Word == AlphaNumeric \cup {"_"}
            JetReferenceAt(k) ==
                /\ k + Len(JetPrefix) <= Len(prefix)
                /\ SubSeq(prefix, k + 1, k + Len(JetPrefix)) = JetPrefix
                /\ \A i \in (k + Len(JetPrefix) + 1)..Len(prefix) : prefix[i] \in Word
                /\ (k > 0 => prefix[k] \notin Word \cup {":"})
        IN (\E k \in 0..Len(prefix) : JetReferenceAt(k)) => calc.result = Jets

\* C38: utils::find_related_call resolves a target to a call exactly when a
\* call of the selected function contains the target in its span, arguments
\* included, and the call returned is such a call; it reports
\* 'given span not inside function' when no function contains the target
\* and 'no related call found' when no call does.
C38_UtilsCallContainsTarget ==
    calc.stage = "utils_find_related_call" =>
        IF Enclosing(calc.functions, calc.token_span) = {}
        THEN calc.result = [ok |-> FALSE, err |-> "given span not inside function"]
        ELSE IF EnclosingCalls(calc.functions, calc.token_span) = {}
        THEN calc.result = [ok |-> FALSE, err |-> "no related call found"]
        ELSE /\ calc.result.ok
             /\ calc.result.call \in EnclosingCalls(calc.functions, calc.token_span)

\* C39: match_callname returns a template for exactly the ten builtin
\* constructs and none for a jet, a type cast and a user-defined name;
\* get_builtin_functions yields ten templates, one per construct; the
\* description of a hover on a type cast is none.
C39_TemplatesForBuiltinsOnly ==
    /\ calc.stage = "match_callname" =>
          (calc.result # None <=>
              calc.name.kind \in {"UnwrapLeft", "UnwrapRight", "Unwrap", "IsNone", "Assert",
                                  "Panic", "Debug", "Fold", "ArrayFold", "ForWhile"})
    /\ calc.stage = "get_builtin_functions" =>
          /\ Len(calc.result) = 10
          /\ {calc.result[i].display_name : i \in 1..Len(calc.result)} =
                 {"unwrap_left", "unwrap_right", "unwrap", "is_none", "assert!", "panic!",
                  "dbg!", "fold", "array_fold", "for_while"}
    /\ (calc.stage = "hover_description" /\ calc.name.kind = "TypeCast") =>
          calc.result = None

\* The description of a hover on a type cast has been asked for.
C39_Witness ==
    /\ calc.stage = "hover_description"
    /\ calc.name.kind = "TypeCast"
    /\ calc.result = None

\* C40: in the text of get_insert_text the placeholders are numbered 1, 2, ..
\* in their order, the generics first, between '::<' and '>' (left out when
\* there is no generic), then the arguments between the parentheses, each
\* placeholder carrying its item; get_signature gives 'fn(', the arguments
\* separated by ', ', ') -> ' and the return type, '()' when it is empty.
C40_PlaceholdersNumberedInOrder ==
    /\ calc.stage = "get_insert_text" =>
          LET self  == calc.template
              r     == calc.result
              g     == Len(self.generics)
              n     == Len(self.args)
              marks == {k \in 1..Len(r) : r[k] = "${"}
              open  == CHOOSE k \in 1..Len(r) : r[k] = "("
              Rank(k) == Cardinality({m \in marks : m <= k})
          IN /\ Cardinality(marks) = g + n
             /\ Cardinality({k \in 1..Len(r) : r[k] = "("}) = 1
             /\ \A k \in marks :
                   /\ r[k + 1] = ToString(Rank(k))
                   /\ r[k + 3] = (self.generics \o self.args)[Rank(k)]
                   /\ Rank(k) <= g <=> k < open
             /\ r[1] = self.snippet_base
             /\ r[Len(r)] = ")"
             /\ IF g = 0 THEN open = 2 /\ \A k \in 1..Len(r) : r[k] # "::<"
                ELSE r[2] = "::<" /\ r[open - 1] = ">"
    /\ calc.stage = "get_signature" =>
          LET self == calc.template
              r    == calc.result
              n    == Len(self.args)
          IN /\ Len(r) = 3 + n + (IF n = 0 THEN 0 ELSE n - 1)
             /\ r[1] = "fn("
             /\ SelectSeq(SubSeq(r, 2, Len(r) - 2), LAMBDA x : x # ", ") = self.args
             /\ \A k \in 2..(Len(r) - 2) : (r[k] = ", ") <=> (k % 2 = 1)
             /\ r[Len(r) - 1] = ") -> "
             /\ r[Len(r)] = (IF self.return_type = "" THEN "()" ELSE self.return_type)

\* The insert text of a template with two generics and two arguments: the
\* last placeholder has number 4.
C40_Witness ==
    /\ calc.stage = "get_insert_text"
    /\ calc.template.generics = <<"f", "N">>
    /\ calc.template.args = <<"list", "acc">>
    /\ calc.result[Len(calc.result) - 4] = "4"

====
